---- MODULE Spec2Model ----
(***************************************************************************)
(* A model of two primitives of aws-lc:                                    *)
(*   - HKDF, HKDF_extract and HKDF_expand (crypto/fipsmodule/hkdf/hkdf.c), *)
(*     stepped statement by statement, with the keyed hash (HMAC) and the  *)
(*     FIPS service indicator as the external collaborators they call;     *)
(*   - CRYPTO_rdrand and CRYPTO_rdrand_multiple8_buf (the generated        *)
(*     x86-64 assembly), stepped instruction group by instruction group,   *)
(*     with the carry flag kept as the instructions leave it.              *)
(* and of the option validation of the x509 command of the openssl tool    *)
(* (X509Tool), up to the opening of the input file.                        *)
(***************************************************************************)
EXTENDS Integers, Sequences, FiniteSets, TLC

VARIABLES
  th,     \* per thread: the HKDF call it is in, its arguments, locals and position
  lock,   \* the lock depth of the FIPS service indicator
  outer,  \* how many of the locks are held by the code around the HKDF calls
  rd,     \* the call into the RDRAND routines: registers, flags, caller memory
  x5      \* the call of X509Tool: its arguments, its locals and its position

\* the state of the HKDF calls, and the state of the other primitives
hkdfVars == <<th, lock, outer>>
otherVars == <<rd, x5>>
vars == <<th, lock, outer, rd, x5>>

-----------------------------------------------------------------------------
(* Bounds of the model *)

\* digest lengths the stepped model runs with are 1..MaxDigestLen
MaxDigestLen == 2
\* requested output lengths the stepped model runs with are 0..MaxOutLen
MaxOutLen == 4
\* width in bits of size_t in the model (the length check wraps modulo 2^SizeBits)
SizeBits == 15
\* how many times the code around the HKDF call may already hold the indicator lock
MaxOuterLock == 1
\* the bulk filler is called for 0..MaxChunks chunks of 8 bytes
MaxChunks == 2

SizeMod == 2 ^ SizeBits

Threads == {"t1", "t2"}

\* the bytes of the caller's output buffer the model holds: the small requested
\* lengths and room after them (a refused length writes nothing)
OutCap == MaxOutLen + MaxDigestLen

EVP_MAX_MD_SIZE == MaxDigestLen

Zeros(k) == [j \in 1 .. k |-> 0]
Fill(k, b) == [j \in 1 .. k |-> b]

Min(a, b) == IF a < b THEN a ELSE b

\* the first k elements of s
Take(s, k) == SubSeq(s, 1, Min(k, Len(s)))

RECURSIVE Flatten(_)
Flatten(ss) == IF ss = <<>> THEN <<>> ELSE Head(ss) \o Flatten(Tail(ss))

-----------------------------------------------------------------------------
(* The keyed hash (HMAC): an external collaborator, modelled as a fixed     *)
(* function of key, message and digest length that tells key from message  *)
(* and is sensitive to the order of the message bytes.                     *)

RECURSIVE Mix(_, _)
Mix(acc, s) ==
  IF s = <<>> THEN acc ELSE Mix((acc * 33 + Head(s) + 1) % 256, Tail(s))

KeyedHash(key, msg, hlen) ==
  LET k == Mix(17, key)
      m == Mix((k * 5 + 3) % 256, msg)
  IN  [j \in 1 .. hlen |-> (m * 3 + k + 89 * j) % 256]

\* HMAC_CTX: the key in use and the chunks fed since the last (re)initialisation
NoCtx == [key |-> <<>>, fed |-> <<>>, live |-> FALSE]

HMAC_CTX_init == NoCtx

\* HMAC_Init_ex(ctx, key, ...): a NULL key keeps the key of the context
HMAC_Init_ex(ctx, key, keyGiven) ==
  [key |-> IF keyGiven THEN key ELSE ctx.key, fed |-> <<>>, live |-> TRUE]

HMAC_Update(ctx, data) == [ctx EXCEPT !.fed = Append(@, data)]

HMAC_Final(ctx, hlen) == KeyedHash(ctx.key, Flatten(ctx.fed), hlen)

HMAC_CTX_cleanup == NoCtx

\* the one-shot HMAC(digest, key, key_len, data, data_len, out, &len)
HMAC(key, data, hlen) == KeyedHash(key, data, hlen)

EVP_MD_size(digest_len) == digest_len

-----------------------------------------------------------------------------
(* The FIPS service indicator: a lock depth, and queries that the code      *)
(* issues and whose answer it never reads.                                  *)

FIPS_service_indicator_lock_state(depth) == depth + 1

FIPS_service_indicator_unlock_state(depth) == depth - 1

-----------------------------------------------------------------------------
(* Inputs of the stepped HKDF model *)

DigestLens == 1 .. MaxDigestLen

Secrets == {<<>>, <<11>>}

Salts == {<<>>, <<5>>}

Infos == {<<>>, <<240, 241>>}

\* what an uninitialised stack buffer may hold when the call starts
StackBytes == {0, 170}

\* PRKs handed to a direct HKDF_expand call: digest_len bytes each
Prks(hlen) == {Fill(hlen, 7), KeyedHash(<<>>, <<11>>, hlen)}

\* requested lengths: the small ones, and the first one the 255-block limit rejects
OutLens(hlen) == (0 .. MaxOutLen) \cup {255 * hlen + 1}

\* buf with data written at byte offset off (offsets count from 0)
Write(buf, off, data) ==
  [j \in 1 .. Len(buf) |->
     IF j > off /\ j <= off + Len(data) THEN data[j - off] ELSE buf[j]]

Blank ==
  [pc |-> "idle", op |-> "none", digest_len |-> 0,
   secret |-> <<>>, salt |-> <<>>, info |-> <<>>,
   out_len |-> 0, out_key |-> <<>>, wr |-> {},
   prk |-> <<>>, prk_len |-> 0, prk_len0 |-> 0,
   hk_ret |-> 0, ex_ret |-> 0, xp_ret |-> 0,
   previous |-> <<>>, n |-> 0, done |-> 0, i |-> 0, ctr |-> 0,
   hmac |-> NoCtx, hfail |-> FALSE, hcalls |-> 0, ctrs |-> <<>>,
   result |-> -1, errs |-> <<>>, ev |-> <<>>, depth0 |-> 0]

Set(t, r) == th' = [th EXCEPT ![t] = r]

\* one more call into the service indicator, made by the named function; depth is
\* the lock depth the call leaves
Ev(s, fn, what, depth) ==
  Append(s.ev, [fn |-> fn, what |-> what, depth |-> depth, answer |-> "none"])

\* what a compliance query may conclude about the service
Answers == {"approved", "not_approved"}

\* a compliance query made by the named function, and what it concluded
Query(s, fn, depth, answer) ==
  Append(s.ev, [fn |-> fn, what |-> "verify", depth |-> depth, answer |-> answer])

-----------------------------------------------------------------------------
(* The calls a user of the library makes *)

Call_HKDF(t) ==
  /\ th[t].pc = "idle"
  /\ \E h \in DigestLens, secret \in Secrets, salt \in Salts, info \in Infos,
        g \in StackBytes :
       \E len \in OutLens(h) :
         Set(t, [Blank EXCEPT !.pc = "hkdf_lock", !.op = "HKDF",
                   !.digest_len = h, !.secret = secret, !.salt = salt,
                   !.info = info, !.out_len = len,
                   !.out_key = Fill(OutCap, 204),
                   !.prk = Fill(EVP_MAX_MD_SIZE, g), !.prk_len = g, !.prk_len0 = g,
                   !.previous = Fill(EVP_MAX_MD_SIZE, g),
                   !.hk_ret = 1, !.depth0 = lock])
  /\ UNCHANGED <<lock, outer, otherVars>>

Call_HKDF_extract(t) ==
  /\ th[t].pc = "idle"
  /\ \E h \in DigestLens, secret \in Secrets, salt \in Salts, g \in StackBytes :
       Set(t, [Blank EXCEPT !.pc = "ext_lock", !.op = "HKDF_extract",
                 !.digest_len = h, !.secret = secret, !.salt = salt,
                 !.prk = Fill(EVP_MAX_MD_SIZE, g), !.prk_len = g, !.prk_len0 = g,
                 !.depth0 = lock])
  /\ UNCHANGED <<lock, outer, otherVars>>

Call_HKDF_expand(t) ==
  /\ th[t].pc = "idle"
  /\ \E h \in DigestLens, info \in Infos, g \in StackBytes :
       \E len \in OutLens(h), prk \in Prks(h) :
         Set(t, [Blank EXCEPT !.pc = "exp_check", !.op = "HKDF_expand",
                   !.digest_len = h, !.info = info, !.out_len = len,
                   !.out_key = Fill(OutCap, 204),
                   !.prk = prk, !.prk_len = Len(prk),
                   !.previous = Fill(EVP_MAX_MD_SIZE, g),
                   !.depth0 = lock])
  /\ UNCHANGED <<lock, outer, otherVars>>

\* the caller has read the result; the thread is free for the next call
Return(t) ==
  /\ th[t].pc = "done"
  /\ Set(t, Blank)
  /\ UNCHANGED <<lock, outer, otherVars>>

\* code around the call may hold the indicator lock itself
CallerLock ==
  /\ \A t \in Threads : th[t].pc = "idle"
  /\ outer < MaxOuterLock
  /\ outer' = outer + 1
  /\ lock' = FIPS_service_indicator_lock_state(lock)
  /\ UNCHANGED <<th, otherVars>>

CallerUnlock ==
  /\ \A t \in Threads : th[t].pc = "idle"
  /\ outer > 0
  /\ outer' = outer - 1
  /\ lock' = FIPS_service_indicator_unlock_state(lock)
  /\ UNCHANGED <<th, otherVars>>

-----------------------------------------------------------------------------
(* HKDF (hkdf.c:31-55) *)

\* hkdf.c:41
HKDF_lock(t) ==
  LET s == th[t] IN
  /\ s.pc = "hkdf_lock"
  /\ lock' = FIPS_service_indicator_lock_state(lock)
  /\ Set(t, [s EXCEPT !.pc = "ext_lock", !.ev = Ev(s, "HKDF", "lock", lock')])
  /\ UNCHANGED <<outer, otherVars>>

\* HKDF going on to HKDF_expand whatever HKDF_extract returned
HKDF_after_extract_Ignored(t) ==
  LET s == th[t] IN
  /\ s.pc = "hkdf_ext_ret"
  /\ Set(t, [s EXCEPT !.pc = "exp_check"])
  /\ UNCHANGED <<lock, outer, otherVars>>

\* hkdf.c:43-48, after HKDF_extract has returned
HKDF_after_extract(t) ==
  LET s == th[t] IN
  /\ s.pc = "hkdf_ext_ret"
  /\ IF s.ex_ret = 0
       THEN Set(t, [s EXCEPT !.hk_ret = 0, !.pc = "hkdf_out"])
       ELSE Set(t, [s EXCEPT !.pc = "exp_check"])
  /\ UNCHANGED <<lock, outer, otherVars>>

\* hkdf.c:45-48, after HKDF_expand has returned
HKDF_after_expand(t) ==
  LET s == th[t] IN
  /\ s.pc = "hkdf_exp_ret"
  /\ Set(t, [s EXCEPT !.hk_ret = IF s.xp_ret = 0 THEN 0 ELSE @,
                      !.pc = "hkdf_out"])
  /\ UNCHANGED <<lock, outer, otherVars>>

\* hkdf.c:51
HKDF_unlock(t) ==
  LET s == th[t] IN
  /\ s.pc = "hkdf_out"
  /\ lock' = FIPS_service_indicator_unlock_state(lock)
  /\ Set(t, [s EXCEPT !.pc = "hkdf_verify", !.ev = Ev(s, "HKDF", "unlock", lock')])
  /\ UNCHANGED <<outer, otherVars>>

\* HKDF making its compliance query only when it is about to return 1
HKDF_verify_OnlyOnSuccess(t) ==
  LET s == th[t] IN
  /\ s.pc = "hkdf_verify"
  /\ \E a \in Answers :
       Set(t, [s EXCEPT !.pc = "done", !.result = s.hk_ret,
                        !.ev = IF s.hk_ret = 1 THEN Query(s, "HKDF", lock, a) ELSE @])
  /\ UNCHANGED <<lock, outer, otherVars>>

\* hkdf.c:52-54
HKDF_verify(t) ==
  LET s == th[t] IN
  /\ s.pc = "hkdf_verify"
  /\ \E a \in Answers :
       Set(t, [s EXCEPT !.pc = "done", !.result = s.hk_ret,
                        !.ev = Query(s, "HKDF", lock, a)])
  /\ UNCHANGED <<lock, outer, otherVars>>

-----------------------------------------------------------------------------
(* HKDF_extract (hkdf.c:57-81) *)

\* where a function called by HKDF, or directly, returns to
ReturnTo(s, afterCall, ret) ==
  IF s.op = "HKDF" THEN [s EXCEPT !.pc = afterCall]
                   ELSE [s EXCEPT !.pc = "done", !.result = ret]

\* hkdf.c:61-65
HKDF_extract_lock(t) ==
  LET s == th[t] IN
  /\ s.pc = "ext_lock"
  /\ lock' = FIPS_service_indicator_lock_state(lock)
  /\ Set(t, [s EXCEPT !.pc = "ext_hmac", !.ex_ret = 0,
                      !.ev = Ev(s, "HKDF_extract", "lock", lock')])
  /\ UNCHANGED <<outer, otherVars>>

\* the keyed hash called with salt and secret in each other's place
ExtractPRK_Swapped(s) == HMAC(s.secret, s.salt, EVP_MD_size(s.digest_len))

\* the value HKDF_extract stores at out_key (hkdf.c:70)
ExtractPRK(s) == HMAC(s.salt, s.secret, EVP_MD_size(s.digest_len))

\* HKDF_extract returning 0 straight from the failed keyed hash, not through `out`
HKDF_extract_hmac_EarlyReturn(t) ==
  LET s == th[t]
      out == HMAC(s.salt, s.secret, EVP_MD_size(s.digest_len))
  IN
  /\ s.pc = "ext_hmac"
  /\ \E ok \in BOOLEAN :
       IF ok
         THEN Set(t, [s EXCEPT !.prk = Write(s.prk, 0, out),
                               !.prk_len = Len(out), !.hcalls = @ + 1,
                               !.ex_ret = 1, !.pc = "ext_out"])
         ELSE Set(t, ReturnTo([s EXCEPT !.errs = Append(@, "ERR_R_HMAC_LIB"),
                                        !.hfail = TRUE, !.hcalls = @ + 1],
                              "hkdf_ext_ret", 0))
  /\ UNCHANGED <<lock, outer, otherVars>>

\* HKDF_extract storing the length before it tests what the keyed hash returned
HKDF_extract_hmac_LenFirst(t) ==
  LET s == th[t]
      out == HMAC(s.salt, s.secret, EVP_MD_size(s.digest_len))
  IN
  /\ s.pc = "ext_hmac"
  /\ \E ok \in BOOLEAN :
       IF ok
         THEN Set(t, [s EXCEPT !.prk = Write(s.prk, 0, out),
                               !.prk_len = Len(out), !.hcalls = @ + 1,
                               !.ex_ret = 1, !.pc = "ext_out"])
         ELSE Set(t, [s EXCEPT !.errs = Append(@, "ERR_R_HMAC_LIB"),
                               !.prk_len = Len(out),
                               !.hfail = TRUE, !.hcalls = @ + 1, !.pc = "ext_out"])
  /\ UNCHANGED <<lock, outer, otherVars>>

\* hkdf.c:69-76; the keyed hash may fail
HKDF_extract_hmac(t) ==
  LET s == th[t]
      out == ExtractPRK(s)
  IN
  /\ s.pc = "ext_hmac"
  /\ \E ok \in BOOLEAN :
       IF ok
         THEN Set(t, [s EXCEPT !.prk = Write(s.prk, 0, out),
                               !.prk_len = Len(out), !.hcalls = @ + 1,
                               !.ex_ret = 1, !.pc = "ext_out"])
         ELSE Set(t, [s EXCEPT !.errs = Append(@, "ERR_R_HMAC_LIB"),
                               !.hfail = TRUE, !.hcalls = @ + 1, !.pc = "ext_out"])
  /\ UNCHANGED <<lock, outer, otherVars>>

\* hkdf.c:78-80
HKDF_extract_out(t) ==
  LET s == th[t] IN
  /\ s.pc = "ext_out"
  /\ lock' = FIPS_service_indicator_unlock_state(lock)
  /\ Set(t, ReturnTo([s EXCEPT !.ev = Ev(s, "HKDF_extract", "unlock", lock')],
                     "hkdf_ext_ret", s.ex_ret))
  /\ UNCHANGED <<outer, otherVars>>

-----------------------------------------------------------------------------
(* HKDF_expand (hkdf.c:83-144) *)

\* hkdf.c:95, in size_t arithmetic
BlockCount(out_len, digest_len) ==
  ((out_len + digest_len - 1) % SizeMod) \div digest_len

\* the length check with the block limit off by one
OutputTooLarge_256(out_len, digest_len) ==
  \/ (out_len + digest_len) % SizeMod < out_len
  \/ BlockCount(out_len, digest_len) > 256

\* the length check without the test for a wrapped sum
OutputTooLarge_NoWrapTest(out_len, digest_len) ==
  BlockCount(out_len, digest_len) > 255

\* hkdf.c:96: TRUE when the requested length is refused
OutputTooLarge(out_len, digest_len) ==
  \/ (out_len + digest_len) % SizeMod < out_len
  \/ BlockCount(out_len, digest_len) > 255

\* the length check leaving through `out` when it refuses the length
HKDF_expand_check_GotoOut(t) ==
  LET s == th[t]
      e == [s EXCEPT !.n = BlockCount(s.out_len, s.digest_len),
                     !.done = 0, !.i = 0, !.xp_ret = 0]
  IN
  /\ s.pc = "exp_check"
  /\ IF OutputTooLarge(s.out_len, s.digest_len)
       THEN Set(t, [e EXCEPT !.errs = Append(@, "HKDF_R_OUTPUT_TOO_LARGE"),
                             !.pc = "exp_out"])
       ELSE Set(t, [e EXCEPT !.pc = "exp_lock"])
  /\ UNCHANGED <<lock, outer, otherVars>>

\* hkdf.c:87-99
HKDF_expand_check(t) ==
  LET s == th[t]
      e == [s EXCEPT !.n = BlockCount(s.out_len, s.digest_len),
                     !.done = 0, !.i = 0, !.xp_ret = 0]
  IN
  /\ s.pc = "exp_check"
  /\ IF OutputTooLarge(s.out_len, s.digest_len)
       THEN Set(t, ReturnTo([e EXCEPT !.errs = Append(@, "HKDF_R_OUTPUT_TOO_LARGE")],
                            "hkdf_exp_ret", 0))
       ELSE Set(t, [e EXCEPT !.pc = "exp_lock"])
  /\ UNCHANGED <<lock, outer, otherVars>>

\* hkdf.c:101-105
HKDF_expand_lock(t) ==
  LET s == th[t] IN
  /\ s.pc = "exp_lock"
  /\ lock' = FIPS_service_indicator_lock_state(lock)
  /\ Set(t, [s EXCEPT !.pc = "exp_init", !.hmac = HMAC_CTX_init,
                      !.ev = Ev(s, "HKDF_expand", "lock", lock')])
  /\ UNCHANGED <<outer, otherVars>>

\* the loop head when no block re-initialises the hash and feeds `previous`
LoopHead_NoChain(s, i) ==
  IF i < s.n
    THEN [s EXCEPT !.i = i, !.ctr = (i + 1) % 256, !.pc = "exp_info"]
    ELSE [s EXCEPT !.i = i, !.xp_ret = 1, !.pc = "exp_out"]

\* the loop head when the first block is computed before n is looked at
LoopHead_DoWhile(s, i) ==
  IF i < s.n \/ i = 0
    THEN [s EXCEPT !.i = i, !.ctr = (i + 1) % 256,
                   !.pc = IF i # 0 THEN "exp_reinit" ELSE "exp_info"]
    ELSE [s EXCEPT !.i = i, !.xp_ret = 1, !.pc = "exp_out"]

\* the loop head when the counter byte counts the blocks still to come
LoopHead_CountDown(s, i) ==
  IF i < s.n
    THEN [s EXCEPT !.i = i, !.ctr = (s.n - i) % 256,
                   !.pc = IF i # 0 THEN "exp_reinit" ELSE "exp_info"]
    ELSE [s EXCEPT !.i = i, !.xp_ret = 1, !.pc = "exp_out"]

\* the head of the loop at hkdf.c:111-112 for block index i, and hkdf.c:133
\* once the loop is over
LoopHead(s, i) ==
  IF i < s.n
    THEN [s EXCEPT !.i = i, !.ctr = (i + 1) % 256,
                   !.pc = IF i # 0 THEN "exp_reinit" ELSE "exp_info"]
    ELSE [s EXCEPT !.i = i, !.xp_ret = 1, !.pc = "exp_out"]

\* the key HKDF_expand hands to the keyed hash: prk_len bytes at prk
ExpandKey(s) == Take(s.prk, s.prk_len)

\* hkdf.c:107-109
HKDF_expand_init(t) ==
  LET s == th[t] IN
  /\ s.pc = "exp_init"
  /\ \E ok \in BOOLEAN :
       IF ok
         THEN Set(t, LoopHead([s EXCEPT !.hmac = HMAC_Init_ex(@, ExpandKey(s), TRUE),
                                        !.hcalls = @ + 1], 0))
         ELSE Set(t, [s EXCEPT !.hfail = TRUE, !.hcalls = @ + 1, !.pc = "exp_out"])
  /\ UNCHANGED <<lock, outer, otherVars>>

\* hkdf.c:115, the re-initialisation of every block but the first
HKDF_expand_reinit(t) ==
  LET s == th[t] IN
  /\ s.pc = "exp_reinit"
  /\ \E ok \in BOOLEAN :
       IF ok
         THEN Set(t, [s EXCEPT !.hmac = HMAC_Init_ex(@, <<>>, FALSE),
                               !.hcalls = @ + 1, !.pc = "exp_prev"])
         ELSE Set(t, [s EXCEPT !.hfail = TRUE, !.hcalls = @ + 1, !.pc = "exp_out"])
  /\ UNCHANGED <<lock, outer, otherVars>>

\* hkdf.c:116
HKDF_expand_prev(t) ==
  LET s == th[t] IN
  /\ s.pc = "exp_prev"
  /\ \E ok \in BOOLEAN :
       IF ok
         THEN Set(t, [s EXCEPT !.hmac = HMAC_Update(@, Take(s.previous, s.digest_len)),
                               !.hcalls = @ + 1, !.pc = "exp_info"])
         ELSE Set(t, [s EXCEPT !.hfail = TRUE, !.hcalls = @ + 1, !.pc = "exp_out"])
  /\ UNCHANGED <<lock, outer, otherVars>>

\* the update with info when its return value is not tested
HKDF_expand_info_Unchecked(t) ==
  LET s == th[t] IN
  /\ s.pc = "exp_info"
  /\ \E ok \in BOOLEAN :
       IF ok
         THEN Set(t, [s EXCEPT !.hmac = HMAC_Update(@, s.info),
                               !.hcalls = @ + 1, !.pc = "exp_ctr"])
         ELSE Set(t, [s EXCEPT !.hfail = TRUE, !.hcalls = @ + 1, !.pc = "exp_ctr"])
  /\ UNCHANGED <<lock, outer, otherVars>>

\* hkdf.c:119
HKDF_expand_info(t) ==
  LET s == th[t] IN
  /\ s.pc = "exp_info"
  /\ \E ok \in BOOLEAN :
       IF ok
         THEN Set(t, [s EXCEPT !.hmac = HMAC_Update(@, s.info),
                               !.hcalls = @ + 1, !.pc = "exp_ctr"])
         ELSE Set(t, [s EXCEPT !.hfail = TRUE, !.hcalls = @ + 1, !.pc = "exp_out"])
  /\ UNCHANGED <<lock, outer, otherVars>>

\* hkdf.c:120
HKDF_expand_ctr(t) ==
  LET s == th[t] IN
  /\ s.pc = "exp_ctr"
  /\ \E ok \in BOOLEAN :
       IF ok
         THEN Set(t, [s EXCEPT !.hmac = HMAC_Update(@, <<s.ctr>>),
                               !.ctrs = Append(@, s.ctr),
                               !.hcalls = @ + 1, !.pc = "exp_final"])
         ELSE Set(t, [s EXCEPT !.hfail = TRUE, !.ctrs = Append(@, s.ctr),
                               !.hcalls = @ + 1, !.pc = "exp_out"])
  /\ UNCHANGED <<lock, outer, otherVars>>

\* the block's hash result when `previous` is one buffer for all callers
HKDF_expand_final_SharedPrevious(t) ==
  LET s == th[t] IN
  /\ s.pc = "exp_final"
  /\ \E ok \in BOOLEAN :
       IF ok
         THEN th' = [u \in Threads |->
                [(IF u = t THEN [s EXCEPT !.hcalls = @ + 1, !.pc = "exp_copy"]
                           ELSE th[u])
                   EXCEPT !.previous =
                            Write(@, 0, HMAC_Final(s.hmac, s.digest_len))]]
         ELSE Set(t, [s EXCEPT !.hfail = TRUE, !.hcalls = @ + 1, !.pc = "exp_out"])
  /\ UNCHANGED <<lock, outer, otherVars>>

\* hkdf.c:121
HKDF_expand_final(t) ==
  LET s == th[t] IN
  /\ s.pc = "exp_final"
  /\ \E ok \in BOOLEAN :
       IF ok
         THEN Set(t, [s EXCEPT !.previous =
                                 Write(@, 0, HMAC_Final(s.hmac, s.digest_len)),
                               !.hcalls = @ + 1, !.pc = "exp_copy"])
         ELSE Set(t, [s EXCEPT !.hfail = TRUE, !.hcalls = @ + 1, !.pc = "exp_out"])
  /\ UNCHANGED <<lock, outer, otherVars>>

\* the copy without the clamp to what is left of out_len
Todo_NoClamp(s) == s.digest_len

\* hkdf.c:125-128
Todo(s) ==
  IF s.digest_len > (s.out_len - s.done) % SizeMod
    THEN (s.out_len - s.done) % SizeMod
    ELSE s.digest_len

\* hkdf.c:125-130, then the loop's i++ and test
HKDF_expand_copy(t) ==
  LET s == th[t]
      todo == Todo(s)
  IN
  /\ s.pc = "exp_copy"
  /\ Set(t, LoopHead([s EXCEPT !.out_key = Write(@, s.done, Take(s.previous, todo)),
                               !.wr = @ \cup (s.done .. s.done + todo - 1),
                               !.done = s.done + todo],
                     s.i + 1))
  /\ UNCHANGED <<lock, outer, otherVars>>

\* hkdf.c:135-136
HKDF_expand_unlock(t) ==
  LET s == th[t] IN
  /\ s.pc = "exp_out"
  /\ lock' = FIPS_service_indicator_unlock_state(lock)
  /\ Set(t, [s EXCEPT !.pc = "exp_verify",
                      !.ev = Ev(s, "HKDF_expand", "unlock", lock')])
  /\ UNCHANGED <<outer, otherVars>>

\* HKDF_expand making its compliance query only when ret is 1
HKDF_expand_verify_OnlyOnSuccess(t) ==
  LET s == th[t] IN
  /\ s.pc = "exp_verify"
  /\ \E a \in Answers :
       Set(t, [s EXCEPT !.pc = "exp_cleanup",
                        !.ev = IF s.xp_ret = 1 THEN Query(s, "HKDF_expand", lock, a)
                                               ELSE @])
  /\ UNCHANGED <<lock, outer, otherVars>>

\* hkdf.c:137
HKDF_expand_verify(t) ==
  LET s == th[t] IN
  /\ s.pc = "exp_verify"
  /\ \E a \in Answers :
       Set(t, [s EXCEPT !.pc = "exp_cleanup",
                        !.ev = Query(s, "HKDF_expand", lock, a)])
  /\ UNCHANGED <<lock, outer, otherVars>>

\* the end of HKDF_expand when a query that did not approve makes it fail
HKDF_expand_cleanup_Branching(t) ==
  LET s == th[t]
      ret == IF s.ev[Len(s.ev)].answer = "not_approved" THEN 0 ELSE s.xp_ret
  IN
  /\ s.pc = "exp_cleanup"
  /\ Set(t, ReturnTo([s EXCEPT !.hmac = HMAC_CTX_cleanup, !.xp_ret = ret,
                               !.errs = IF ret # 1
                                          THEN Append(@, "ERR_R_HMAC_LIB") ELSE @],
                     "hkdf_exp_ret", ret))
  /\ UNCHANGED <<lock, outer, otherVars>>

\* hkdf.c:139-143
HKDF_expand_cleanup(t) ==
  LET s == th[t] IN
  /\ s.pc = "exp_cleanup"
  /\ Set(t, ReturnTo([s EXCEPT !.hmac = HMAC_CTX_cleanup,
                               !.errs = IF s.xp_ret # 1
                                          THEN Append(@, "ERR_R_HMAC_LIB") ELSE @],
                     "hkdf_exp_ret", s.xp_ret))
  /\ UNCHANGED <<lock, outer, otherVars>>

-----------------------------------------------------------------------------
(* CRYPTO_rdrand and CRYPTO_rdrand_multiple8_buf (the generated assembly)   *)
(* A 64-bit register value is its 8 bytes, least significant first.         *)

Zero64 == Fill(8, 0)

Ones64 == Fill(8, 255)

\* what the RDRAND instruction may leave in its destination register
HwValues ==
  {Zero64, Ones64,
   <<1, 0, 0, 0, 0, 0, 0, 0>>,
   <<254, 255, 255, 255, 255, 255, 255, 255>>,
   <<18, 52, 86, 120, 154, 188, 222, 240>>}

\* a < b as unsigned 64-bit values, from byte k down
RECURSIVE ULessFrom(_, _, _)
ULessFrom(a, b, k) ==
  IF k = 0 THEN FALSE
  ELSE IF a[k] # b[k] THEN a[k] < b[k]
  ELSE ULessFrom(a, b, k - 1)

\* the flags `testq v,v` leaves
Test(v) == [zf |-> v = Zero64, cf |-> 0]

\* the flags `cmpq $imm,v` leaves: v - imm, carry on borrow
Cmp(v, imm) == [zf |-> v = imm, cf |-> IF ULessFrom(v, imm, 8) THEN 1 ELSE 0]

\* the checks without the compare with -1
Checks_NoCmp(v) ==
  LET t == Test(v) IN [jump |-> t.zf, cf |-> t.cf]

\* testq; jz err; cmpq $-1; je err (lines 21-24 and 52-55): whether a jump to
\* the error exit is taken, and the carry flag left behind
Checks(v) ==
  LET t == Test(v) IN
  IF t.zf THEN [jump |-> TRUE, cf |-> t.cf]
  ELSE LET c == Cmp(v, Ones64) IN [jump |-> c.zf, cf |-> c.cf]

\* val is the destination of RDRAND (%rdx in CRYPTO_rdrand, %rcx in the bulk
\* filler), step the %rdx of the bulk filler, rdi an offset into the caller's
\* memory; hw and wr record the draws and the stores of the call
RdBlank ==
  [pc |-> "idle", fn |-> "none", rax |-> 0, val |-> Zero64, step |-> 0,
   rdi |-> 0, rsi |-> 0, cf |-> 0, out |-> <<>>, buf |-> <<>>, len |-> 0,
   hw |-> <<>>, wr |-> <<>>, result |-> -1]

\* int CRYPTO_rdrand(uint64_t out[1])
Call_CRYPTO_rdrand ==
  /\ rd.pc = "idle"
  /\ rd' = [RdBlank EXCEPT !.pc = "rr_draw", !.fn = "CRYPTO_rdrand",
                           !.out = Fill(8, 204)]
  /\ UNCHANGED <<hkdfVars, x5>>

\* int CRYPTO_rdrand_multiple8_buf(uint8_t *buf, size_t len), len a multiple of 8
Call_CRYPTO_rdrand_multiple8_buf ==
  /\ rd.pc = "idle"
  /\ \E k \in 0 .. MaxChunks :
       rd' = [RdBlank EXCEPT !.pc = "rm_entry", !.fn = "CRYPTO_rdrand_multiple8_buf",
                             !.buf = Fill(8 * k + 8, 204), !.len = 8 * k,
                             !.rdi = 0, !.rsi = 8 * k]
  /\ UNCHANGED <<hkdfVars, x5>>

Return_rdrand ==
  /\ rd.pc = "done"
  /\ rd' = RdBlank
  /\ UNCHANGED <<hkdfVars, x5>>

\* lines 19-20: xorq %rax,%rax; rdrand %rdx
CRYPTO_rdrand_draw ==
  /\ rd.pc = "rr_draw"
  /\ \E cf \in {0, 1}, v \in HwValues :
       rd' = [rd EXCEPT !.rax = 0, !.val = v, !.cf = cf,
                        !.hw = Append(@, [cf |-> cf, val |-> v, at |-> 0]),
                        !.pc = "rr_test"]
  /\ UNCHANGED <<hkdfVars, x5>>

\* lines 21-24
CRYPTO_rdrand_test ==
  LET c == Checks(rd.val) IN
  /\ rd.pc = "rr_test"
  /\ rd' = [rd EXCEPT !.cf = c.cf, !.pc = IF c.jump THEN "rr_err" ELSE "rr_store"]
  /\ UNCHANGED <<hkdfVars, x5>>

\* lines 26-28: adcq %rax,%rax; movq %rdx,0(%rdi); ret
CRYPTO_rdrand_store ==
  /\ rd.pc = "rr_store"
  /\ rd' = [rd EXCEPT !.rax = rd.rax + rd.rax + rd.cf,
                      !.out = rd.val, !.wr = Append(@, 0),
                      !.result = rd.rax + rd.rax + rd.cf, !.pc = "done"]
  /\ UNCHANGED <<hkdfVars, x5>>

\* the error exit of CRYPTO_rdrand when it clears the caller's word as well
CRYPTO_rdrand_err_Clear ==
  /\ rd.pc = "rr_err"
  /\ rd' = [rd EXCEPT !.rax = 0, !.result = 0, !.out = Zeros(8), !.pc = "done"]
  /\ UNCHANGED <<hkdfVars, x5>>

\* lines 29-31
CRYPTO_rdrand_err ==
  /\ rd.pc = "rr_err"
  /\ rd' = [rd EXCEPT !.rax = 0, !.result = 0, !.pc = "done"]
  /\ UNCHANGED <<hkdfVars, x5>>

\* the entry of the bulk filler without the test of the length
CRYPTO_rdrand_multiple8_buf_entry_NoTest ==
  /\ rd.pc = "rm_entry"
  /\ rd' = [rd EXCEPT !.cf = 0, !.step = 8, !.pc = "rm_draw"]
  /\ UNCHANGED <<hkdfVars, x5>>

\* lines 46-48: testq %rsi,%rsi; jz out; movq $8,%rdx
CRYPTO_rdrand_multiple8_buf_entry ==
  /\ rd.pc = "rm_entry"
  /\ rd' = IF rd.rsi = 0 THEN [rd EXCEPT !.cf = 0, !.pc = "rm_out"]
                         ELSE [rd EXCEPT !.cf = 0, !.step = 8, !.pc = "rm_draw"]
  /\ UNCHANGED <<hkdfVars, x5>>

\* line 50: rdrand %rcx
CRYPTO_rdrand_multiple8_buf_draw ==
  /\ rd.pc = "rm_draw"
  /\ \E cf \in {0, 1}, v \in HwValues :
       rd' = [rd EXCEPT !.val = v, !.cf = cf,
                        !.hw = Append(@, [cf |-> cf, val |-> v, at |-> rd.rdi]),
                        !.pc = "rm_check"]
  /\ UNCHANGED <<hkdfVars, x5>>

\* the checks of the bulk filler when a failed instruction sends it back to
\* the draw
CRYPTO_rdrand_multiple8_buf_check_Retry ==
  LET c == Checks(rd.val) IN
  /\ rd.pc = "rm_check"
  /\ rd' = IF rd.cf = 0 THEN [rd EXCEPT !.pc = "rm_draw"]
           ELSE [rd EXCEPT !.cf = c.cf,
                           !.pc = IF c.jump THEN "rm_err" ELSE "rm_store"]
  /\ UNCHANGED <<hkdfVars, x5>>

\* the checks of the bulk filler when a stuck pattern sends it back to the draw
CRYPTO_rdrand_multiple8_buf_check_Redraw ==
  LET c == Checks(rd.val) IN
  /\ rd.pc = "rm_check"
  /\ rd' = IF rd.cf = 0 THEN [rd EXCEPT !.pc = "rm_err"]
           ELSE [rd EXCEPT !.cf = c.cf,
                           !.pc = IF c.jump THEN "rm_draw" ELSE "rm_store"]
  /\ UNCHANGED <<hkdfVars, x5>>

\* lines 51-55: jnc err_multiple, then the checks
CRYPTO_rdrand_multiple8_buf_check ==
  LET c == Checks(rd.val) IN
  /\ rd.pc = "rm_check"
  /\ rd' = IF rd.cf = 0 THEN [rd EXCEPT !.pc = "rm_err"]
           ELSE [rd EXCEPT !.cf = c.cf,
                           !.pc = IF c.jump THEN "rm_err" ELSE "rm_store"]
  /\ UNCHANGED <<hkdfVars, x5>>

\* the store when %rdi is not advanced
CRYPTO_rdrand_multiple8_buf_store_NoAdvance ==
  /\ rd.pc = "rm_store"
  /\ rd' = [rd EXCEPT !.buf = Write(@, rd.rdi, rd.val), !.wr = Append(@, rd.rdi),
                      !.rsi = rd.rsi - rd.step,
                      !.cf = 0,
                      !.pc = IF rd.rsi - rd.step # 0 THEN "rm_draw" ELSE "rm_out"]
  /\ UNCHANGED <<hkdfVars, x5>>

\* lines 56-59: movq %rcx,0(%rdi); addq %rdx,%rdi; subq %rdx,%rsi; jnz loop
CRYPTO_rdrand_multiple8_buf_store ==
  /\ rd.pc = "rm_store"
  /\ rd' = [rd EXCEPT !.buf = Write(@, rd.rdi, rd.val), !.wr = Append(@, rd.rdi),
                      !.rdi = rd.rdi + rd.step, !.rsi = rd.rsi - rd.step,
                      !.cf = 0,
                      !.pc = IF rd.rsi - rd.step # 0 THEN "rm_draw" ELSE "rm_out"]
  /\ UNCHANGED <<hkdfVars, x5>>

\* lines 60-62
CRYPTO_rdrand_multiple8_buf_out ==
  /\ rd.pc = "rm_out"
  /\ rd' = [rd EXCEPT !.rax = 1, !.result = 1, !.pc = "done"]
  /\ UNCHANGED <<hkdfVars, x5>>

\* the error exit of the bulk filler when it wipes what it has filled
CRYPTO_rdrand_multiple8_buf_err_Wipe ==
  /\ rd.pc = "rm_err"
  /\ rd' = [rd EXCEPT !.rax = 0, !.result = 0, !.pc = "done",
                      !.buf = Write(@, 0, Zeros(rd.rdi))]
  /\ UNCHANGED <<hkdfVars, x5>>

\* lines 63-65
CRYPTO_rdrand_multiple8_buf_err ==
  /\ rd.pc = "rm_err"
  /\ rd' = [rd EXCEPT !.rax = 0, !.result = 0, !.pc = "done"]
  /\ UNCHANGED <<hkdfVars, x5>>

-----------------------------------------------------------------------------
(* X509Tool (part_001:60-254): the options, and the checks made on them     *)
(* before the input file is opened.                                         *)

\* an option that takes a value is <<>> when it is not given and <<value>>
\* when it is; an option without a value is given or not
NoArgs ==
  [in |-> <<>>, out |-> <<>>, signkey |-> <<>>, checkend |-> <<>>, days |-> <<>>,
   noout |-> FALSE, modulus |-> FALSE, dates |-> FALSE, req |-> FALSE]

ArgSets ==
  [in : {<<>>, <<"cert.pem">>}, out : {<<>>, <<"out.pem">>},
   signkey : {<<>>, <<"key.pem">>},
   checkend : {<<>>, <<0>>, <<3600>>}, days : {<<>>, <<0>>, <<365>>},
   noout : BOOLEAN, modulus : BOOLEAN, dates : BOOLEAN, req : BOOLEAN]

\* GetString and GetUnsigned: the value given, the default when none is
GetString(arg, default) == IF arg = <<>> THEN default ELSE arg[1]
GetUnsigned(arg, default) == IF arg = <<>> THEN default ELSE arg[1]

XBlank ==
  [pc |-> "idle", args |-> NoArgs,
   in_path |-> "", out_path |-> "", signkey_path |-> "",
   noout |-> FALSE, modulus |-> FALSE, dates |-> FALSE, req |-> FALSE,
   checkend |-> 0, days |-> 0,
   err |-> "none", fopen |-> "not called", result |-> -1]

Call_X509Tool ==
  /\ x5.pc = "idle"
  /\ \E a \in ArgSets : x5' = [XBlank EXCEPT !.pc = "xt_get", !.args = a]
  /\ UNCHANGED <<hkdfVars, rd>>

Return_X509Tool ==
  /\ x5.pc = "done"
  /\ x5' = XBlank
  /\ UNCHANGED <<hkdfVars, rd>>

\* part_001:67-79
X509Tool_get ==
  /\ x5.pc = "xt_get"
  /\ x5' = [x5 EXCEPT !.in_path = GetString(x5.args.in, ""),
                      !.out_path = GetString(x5.args.out, ""),
                      !.signkey_path = GetString(x5.args.signkey, ""),
                      !.noout = x5.args.noout, !.modulus = x5.args.modulus,
                      !.dates = x5.args.dates, !.req = x5.args.req,
                      !.checkend = GetUnsigned(x5.args.checkend, 0),
                      !.days = GetUnsigned(x5.args.days, 0),
                      !.pc = "xt_check"]
  /\ UNCHANGED <<hkdfVars, rd>>

\* the checks without the one on -days
Validation_NoDays(v) ==
  CASE v.in_path = "" -> "missing -in"
    [] v.in_path # "" /\ v.req /\ v.signkey_path = "" -> "-req without -signkey"
    [] OTHER ->
         IF v.noout /\ (v.out_path # "" \/ v.modulus \/ v.dates \/ v.checkend # 0)
           THEN "-noout with another output"
         ELSE IF v.req /\ (v.dates \/ v.checkend # 0)
           THEN "-req with -dates or -checkend"
         ELSE IF v.signkey_path # "" /\ (v.dates \/ v.checkend # 0)
           THEN "-signkey with -dates or -checkend"
         ELSE "ok"

\* part_001:81-108: the first check that fails, "ok" when none does
Validation(v) ==
  CASE v.in_path = "" -> "missing -in"
    [] v.in_path # "" /\ v.req /\ v.signkey_path = "" -> "-req without -signkey"
    [] OTHER ->
         IF v.noout /\ (v.out_path # "" \/ v.modulus \/ v.dates \/ v.checkend # 0)
           THEN "-noout with another output"
         ELSE IF v.req /\ (v.dates \/ v.checkend # 0)
           THEN "-req with -dates or -checkend"
         ELSE IF v.signkey_path # "" /\ (v.dates \/ v.checkend # 0)
           THEN "-signkey with -dates or -checkend"
         ELSE IF v.days # 0 /\ (v.dates \/ v.checkend # 0)
           THEN "-days with -dates or -checkend"
         ELSE "ok"

\* part_001:81-108
X509Tool_check ==
  LET e == Validation(x5) IN
  /\ x5.pc = "xt_check"
  /\ x5' = IF e = "ok" THEN [x5 EXCEPT !.pc = "xt_open"]
                       ELSE [x5 EXCEPT !.err = e, !.result = 0, !.pc = "done"]
  /\ UNCHANGED <<hkdfVars, rd>>

\* part_001:110-114: the input file opens or it does not
X509Tool_open ==
  /\ x5.pc = "xt_open"
  /\ \E ok \in BOOLEAN :
       x5' = IF ok THEN [x5 EXCEPT !.fopen = "opened", !.pc = "xt_run"]
                   ELSE [x5 EXCEPT !.fopen = "failed",
                                   !.err = "unable to load certificate",
                                   !.result = 0, !.pc = "done"]
  /\ UNCHANGED <<hkdfVars, rd>>

\* part_001:116-253: the work on the certificate, which succeeds or fails
X509Tool_run ==
  /\ x5.pc = "xt_run"
  /\ \E r \in {0, 1} : x5' = [x5 EXCEPT !.result = r, !.pc = "done"]
  /\ UNCHANGED <<hkdfVars, rd>>

NextTool ==
  \/ Call_X509Tool
  \/ Return_X509Tool
  \/ X509Tool_get
  \/ X509Tool_check
  \/ X509Tool_open
  \/ X509Tool_run

-----------------------------------------------------------------------------
(* The stepped model of the HKDF calls: one thread makes calls, one after   *)
(* the other.                                                               *)

Init ==
  /\ th = [t \in Threads |-> Blank]
  /\ lock = 0
  /\ outer = 0
  /\ rd = RdBlank
  /\ x5 = XBlank

\* the steps of the code of a call under way
Run(t) ==
  \/ HKDF_lock(t)
  \/ HKDF_after_extract(t)
  \/ HKDF_after_expand(t)
  \/ HKDF_unlock(t)
  \/ HKDF_verify(t)
  \/ HKDF_extract_lock(t)
  \/ HKDF_extract_hmac(t)
  \/ HKDF_extract_out(t)
  \/ HKDF_expand_check(t)
  \/ HKDF_expand_lock(t)
  \/ HKDF_expand_init(t)
  \/ HKDF_expand_reinit(t)
  \/ HKDF_expand_prev(t)
  \/ HKDF_expand_info(t)
  \/ HKDF_expand_ctr(t)
  \/ HKDF_expand_final(t)
  \/ HKDF_expand_copy(t)
  \/ HKDF_expand_unlock(t)
  \/ HKDF_expand_verify(t)
  \/ HKDF_expand_cleanup(t)

Step(t) ==
  \/ Call_HKDF(t)
  \/ Call_HKDF_extract(t)
  \/ Call_HKDF_expand(t)
  \/ Return(t)
  \/ Run(t)

Next ==
  \/ Step("t1")
  \/ CallerLock
  \/ CallerUnlock

Spec == Init /\ [][Next]_vars

-----------------------------------------------------------------------------
(* Two runs of one call, one after the other: "t1" makes any call and runs  *)
(* it to its return; "t2" then makes the same call with the same arguments  *)
(* (HKDF_expand possibly with a longer out_len) and fresh caller buffers.   *)
(* The keyed hash and the compliance query answer each run on their own.    *)

FirstPc(op) ==
  CASE op = "HKDF" -> "hkdf_lock"
    [] op = "HKDF_extract" -> "ext_lock"
    [] op = "HKDF_expand" -> "exp_check"

\* the second run finds zero bytes in what it does not initialise
CallAgain ==
  LET a == th["t1"]
      g == 0
  IN
  /\ a.pc = "done"
  /\ th["t2"].pc = "idle"
  /\ \E len \in OutLens(a.digest_len) :
       /\ len >= a.out_len
       /\ a.op # "HKDF_expand" => len = a.out_len
       /\ Set("t2", [Blank EXCEPT
                 !.pc = FirstPc(a.op), !.op = a.op, !.digest_len = a.digest_len,
                 !.secret = a.secret, !.salt = a.salt, !.info = a.info,
                 !.out_len = IF a.op = "HKDF_extract" THEN 0 ELSE len,
                 !.out_key = IF a.op = "HKDF_extract" THEN <<>> ELSE Fill(OutCap, 204),
                 !.prk = IF a.op = "HKDF_expand" THEN a.prk ELSE Fill(EVP_MAX_MD_SIZE, g),
                 !.prk_len = IF a.op = "HKDF_expand" THEN a.prk_len ELSE g,
                 !.prk_len0 = IF a.op = "HKDF_expand" THEN 0 ELSE g,
                 !.previous = IF a.op = "HKDF_extract" THEN <<>>
                                                       ELSE Fill(EVP_MAX_MD_SIZE, g),
                 !.hk_ret = IF a.op = "HKDF" THEN 1 ELSE 0,
                 !.depth0 = lock])
  /\ UNCHANGED <<lock, outer, otherVars>>

NextPair ==
  \/ Call_HKDF("t1")
  \/ Call_HKDF_extract("t1")
  \/ Call_HKDF_expand("t1")
  \/ Run("t1")
  \/ CallAgain
  \/ Run("t2")

SpecPair == Init /\ [][NextPair]_vars

-----------------------------------------------------------------------------
(* Two calls at once: "t1" and "t2" have each entered a call, with their    *)
(* own secret, salt, info, PRK and output buffer, and their steps are taken *)
(* in any order.  The lock depth is the one thing the two calls share.      *)

ConcOps == {"HKDF", "HKDF_extract", "HKDF_expand"}

ConcDirectOps == {"HKDF_extract", "HKDF_expand"}

\* the arguments of each caller
ConcSecret == [t \in Threads |-> IF t = "t1" THEN <<11>> ELSE <<>>]
ConcSalt == [t \in Threads |-> IF t = "t1" THEN <<>> ELSE <<5>>]
ConcInfo == [t \in Threads |-> IF t = "t1" THEN <<240, 241>> ELSE <<>>]
ConcPrk(t, hlen) ==
  IF t = "t1" THEN Fill(hlen, 7) ELSE KeyedHash(<<>>, <<11>>, hlen)

\* the thread at the first step of its call, as Call_HKDF, Call_HKDF_extract
\* and Call_HKDF_expand leave it
ConcCalls(t, ops, hlens, lens) ==
  {[Blank EXCEPT
      !.pc = FirstPc(op), !.op = op, !.digest_len = h,
      !.secret = IF op = "HKDF_expand" THEN <<>> ELSE ConcSecret[t],
      !.salt = IF op = "HKDF_expand" THEN <<>> ELSE ConcSalt[t],
      !.info = IF op = "HKDF_extract" THEN <<>> ELSE ConcInfo[t],
      !.out_len = IF op = "HKDF_extract" THEN 0 ELSE len,
      !.out_key = IF op = "HKDF_extract" THEN <<>> ELSE Fill(OutCap, 204),
      !.prk = IF op = "HKDF_expand" THEN ConcPrk(t, h)
                                    ELSE Fill(EVP_MAX_MD_SIZE, 0),
      !.prk_len = IF op = "HKDF_expand" THEN h ELSE 0,
      !.previous = IF op = "HKDF_extract" THEN <<>>
                                          ELSE Fill(EVP_MAX_MD_SIZE, 0),
      !.hk_ret = IF op = "HKDF" THEN 1 ELSE 0] :
     op \in ops, h \in hlens, len \in lens}

\* any call of three bytes beside a direct HKDF_extract or HKDF_expand call
\* of three bytes, and two HKDF calls side by side
ConcPairs ==
  {[t \in Threads |-> IF t = "t1" THEN a ELSE b] :
     a \in ConcCalls("t1", ConcOps, {1}, {3}),
     b \in ConcCalls("t2", ConcDirectOps, {2}, {3})}
  \cup
  {[t \in Threads |-> IF t = "t1" THEN a ELSE b] :
     a \in ConcCalls("t1", {"HKDF"}, {2}, {1}),
     b \in ConcCalls("t2", {"HKDF"}, {2}, {0})}

InitConc ==
  /\ th \in ConcPairs
  /\ lock = 0
  /\ outer = 0
  /\ rd = RdBlank
  /\ x5 = XBlank

NextConc ==
  \/ Run("t1")
  \/ Run("t2")

SpecConc == InitConc /\ [][NextConc]_vars

-----------------------------------------------------------------------------
(* HKDF_expand on its own for the longest outputs a one-byte digest allows: *)
(* 254 and 255 blocks, and the 256 blocks the length check refuses.         *)

LongLens == {254, 255, 256}

InitLong ==
  /\ \E len \in LongLens, info \in Infos :
       th = [t \in Threads |->
               IF t = "t1"
                 THEN [Blank EXCEPT !.pc = "exp_check", !.op = "HKDF_expand",
                                    !.digest_len = 1, !.info = info,
                                    !.out_len = len,
                                    !.out_key = Fill(len + 1, 204),
                                    !.prk = Fill(1, 7), !.prk_len = 1,
                                    !.previous = Fill(EVP_MAX_MD_SIZE, 0)]
                 ELSE Blank]
  /\ lock = 0
  /\ outer = 0
  /\ rd = RdBlank
  /\ x5 = XBlank

NextLong ==
  \/ HKDF_expand_check("t1")
  \/ HKDF_expand_lock("t1")
  \/ HKDF_expand_init("t1")
  \/ HKDF_expand_reinit("t1")
  \/ HKDF_expand_prev("t1")
  \/ HKDF_expand_info("t1")
  \/ HKDF_expand_ctr("t1")
  \/ HKDF_expand_final("t1")
  \/ HKDF_expand_copy("t1")
  \/ HKDF_expand_unlock("t1")
  \/ HKDF_expand_verify("t1")
  \/ HKDF_expand_cleanup("t1")

SpecLong == InitLong /\ [][NextLong]_vars

-----------------------------------------------------------------------------
(* The stepped model of the RDRAND routines *)

NextRd ==
  \/ Call_CRYPTO_rdrand
  \/ Call_CRYPTO_rdrand_multiple8_buf
  \/ Return_rdrand
  \/ CRYPTO_rdrand_draw
  \/ CRYPTO_rdrand_test
  \/ CRYPTO_rdrand_store
  \/ CRYPTO_rdrand_err
  \/ CRYPTO_rdrand_multiple8_buf_entry
  \/ CRYPTO_rdrand_multiple8_buf_draw
  \/ CRYPTO_rdrand_multiple8_buf_check
  \/ CRYPTO_rdrand_multiple8_buf_store
  \/ CRYPTO_rdrand_multiple8_buf_out
  \/ CRYPTO_rdrand_multiple8_buf_err

\* the steps of the code of the bulk filler
BulkSteps ==
  \/ CRYPTO_rdrand_multiple8_buf_entry
  \/ CRYPTO_rdrand_multiple8_buf_draw
  \/ CRYPTO_rdrand_multiple8_buf_check
  \/ CRYPTO_rdrand_multiple8_buf_store
  \/ CRYPTO_rdrand_multiple8_buf_out
  \/ CRYPTO_rdrand_multiple8_buf_err

SpecRd == Init /\ [][NextRd]_vars

SpecTool == Init /\ [][NextTool]_vars

\* a call of the bulk filler that has started keeps executing instructions
SpecRdLive == Init /\ [][NextRd]_vars /\ WF_vars(BulkSteps)

-----------------------------------------------------------------------------
(* RFC 5869, section 2.3, as the reference the claims compare the code to *)

\* ceil(a / b) over the integers
Ceil(a, b) == (a + b - 1) \div b

\* T(i), with T(0) the empty string
RECURSIVE RFC_T(_, _, _, _)
RFC_T(prk, info, hlen, i) ==
  IF i = 0 THEN <<>>
  ELSE KeyedHash(prk, RFC_T(prk, info, hlen, i - 1) \o info \o <<i>>, hlen)

\* T(1) || T(2) || ... || T(k)
RECURSIVE RFC_Stream(_, _, _, _)
RFC_Stream(prk, info, hlen, k) ==
  IF k = 0 THEN <<>>
  ELSE RFC_Stream(prk, info, hlen, k - 1) \o RFC_T(prk, info, hlen, k)

\* the first len bytes of T(1) || ... || T(N), N = ceil(len / hlen)
RFC_OKM(prk, info, hlen, len) ==
  Take(RFC_Stream(prk, info, hlen, Ceil(len, hlen)), len)

\* positions of HKDF_expand inside a block of its loop
ExpandLoopPcs == {"exp_reinit", "exp_prev", "exp_info", "exp_ctr", "exp_final", "exp_copy"}

\* positions after HKDF_expand has returned to its caller
AfterExpandPcs == {"hkdf_exp_ret", "hkdf_out", "hkdf_verify", "done"}

RunsExpand(s) == s.op \in {"HKDF", "HKDF_expand"}

-----------------------------------------------------------------------------
(* C1: on success HKDF_expand has written exactly out_key[0..L-1], and they *)
(* are the first L bytes of T(1)||...||T(N), N = ceil(L/HashLen); every      *)
(* block but the last copies HashLen bytes and the last the rest (before    *)
(* block i is copied, done = min(i*HashLen, L)); done never exceeds L and   *)
(* is L at return; no byte at an index >= L is ever written.                *)

C1_Progress(s) ==
  /\ s.done <= s.out_len
  /\ s.wr = 0 .. (s.done - 1)
  /\ \A o \in s.wr : o < s.out_len
  /\ Take(s.out_key, s.done)
       = Take(RFC_Stream(ExpandKey(s), s.info, s.digest_len, Ceil(s.done, s.digest_len)),
              s.done)
  /\ \A j \in (s.done + 1) .. Len(s.out_key) : s.out_key[j] = 204
  /\ s.pc \in ExpandLoopPcs =>
       /\ s.i < Ceil(s.out_len, s.digest_len)
       /\ s.done = Min(s.i * s.digest_len, s.out_len)

C1_OnSuccess(s) ==
  /\ s.done = s.out_len
  /\ s.wr = 0 .. (s.out_len - 1)
  /\ Take(s.out_key, s.out_len) = RFC_OKM(ExpandKey(s), s.info, s.digest_len, s.out_len)

C1_ExpandWritesExactlyL ==
  \A t \in Threads :
    LET s == th[t] IN
    RunsExpand(s) =>
      /\ C1_Progress(s)
      /\ (s.xp_ret = 1 => C1_OnSuccess(s))

\* a direct HKDF_expand call has returned 1 for 3 bytes of a 2-byte digest:
\* two blocks, the last one cut
C1_Witness ==
  LET s == th["t1"] IN
  /\ s.op = "HKDF_expand" /\ s.pc = "done" /\ s.result = 1
  /\ s.digest_len = 2 /\ s.out_len = 3 /\ s.wr = {0, 1, 2}
  /\ s.out_key[4] = 204

-----------------------------------------------------------------------------
(* C2: for every block i of one HKDF_expand call the keyed hash is keyed    *)
(* with the PRK and is fed, in this order, the full T(i-1) (only when       *)
(* i > 1), then info, then the single byte i, and is then finalised to give *)
(* T(i); nothing else is fed, and T(1) takes no previous-block bytes.       *)

\* what the hash of block s.i (counted from 0) has been fed when all is fed
C2_BlockFeed(s) ==
  (IF s.i = 0 THEN <<>>
   ELSE <<RFC_T(ExpandKey(s), s.info, s.digest_len, s.i)>>)
    \o <<s.info, <<s.i + 1>>>>

\* how many chunks of it have been fed at each position of the block
C2_FedAt(s) ==
  LET all == Len(C2_BlockFeed(s)) IN
  CASE s.pc = "exp_prev"  -> 0
    [] s.pc = "exp_info"  -> all - 2
    [] s.pc = "exp_ctr"   -> all - 1
    [] s.pc = "exp_final" -> all
    [] s.pc = "exp_copy"  -> all

C2_BlockFeedOrder ==
  \A t \in Threads :
    LET s == th[t] IN
    (RunsExpand(s) /\ s.pc \in ExpandLoopPcs \ {"exp_reinit"}) =>
      /\ s.hmac.key = ExpandKey(s)
      /\ s.hmac.fed = SubSeq(C2_BlockFeed(s), 1, C2_FedAt(s))
      /\ \A k \in 1 .. Len(s.hmac.fed) - 2 : Len(s.hmac.fed[k]) = s.digest_len
      /\ s.pc = "exp_copy" =>
           Take(s.previous, s.digest_len)
             = RFC_T(ExpandKey(s), s.info, s.digest_len, s.i + 1)

\* the second block of a call has just been finalised: it was fed T(1), a
\* non-empty info and the byte 2
C2_Witness ==
  LET s == th["t1"] IN
  /\ s.pc = "exp_copy" /\ s.i = 1 /\ s.info # <<>>
  /\ Len(s.hmac.fed) = 3 /\ s.hmac.fed[3] = <<2>>

-----------------------------------------------------------------------------
(* The length check of HKDF_expand on its own: every requested length the   *)
(* size type holds, for the output sizes of the digests of the library      *)
(* (MD5 16, SHA-1 20, SHA-224 28, SHA-256 32, SHA-384 48, SHA-512 64).      *)

DigestSizes == {16, 20, 28, 32, 48, 64}

InitLen ==
  /\ \E len \in 0 .. SizeMod - 1, h \in DigestSizes :
       th = [t \in Threads |->
               IF t = "t1"
                 THEN [Blank EXCEPT !.pc = "exp_check", !.op = "HKDF_expand",
                                    !.digest_len = h, !.out_len = len]
                 ELSE Blank]
  /\ lock = 0
  /\ outer = 0
  /\ rd = RdBlank
  /\ x5 = XBlank

NextLen == HKDF_expand_check("t1")

SpecLen == InitLen /\ [][NextLen]_vars

-----------------------------------------------------------------------------
(* C3: HKDF_expand fails with HKDF_R_OUTPUT_TOO_LARGE (return 0) if and only *)
(* if L + HashLen overflows the size type or ceil(L/HashLen) > 255; for every *)
(* digest length H every L <= 255*H passes the check and every L > 255*H is  *)
(* refused.                                                                  *)

C3_Refused(s) ==
  s.pc = "done" /\ s.result = 0 /\ s.errs = <<"HKDF_R_OUTPUT_TOO_LARGE">>

C3_Passed(s) == s.pc = "exp_lock" /\ s.errs = <<>>

C3_LengthCheck ==
  LET s == th["t1"] IN
  (s.op = "HKDF_expand" /\ s.pc # "exp_check") =>
    /\ C3_Refused(s) \/ C3_Passed(s)
    /\ C3_Refused(s) <=> (\/ s.out_len + s.digest_len >= SizeMod
                          \/ Ceil(s.out_len, s.digest_len) > 255)
    /\ s.out_len <= 255 * s.digest_len => C3_Passed(s)
    /\ s.out_len > 255 * s.digest_len => C3_Refused(s)

\* SHA-256 and L = 8193 is refused
C3_Witness ==
  LET s == th["t1"] IN
  /\ s.digest_len = 32 /\ s.out_len = 8193 /\ C3_Refused(s)

-----------------------------------------------------------------------------
(* C4: when the keyed hash succeeds, HKDF_extract returns 1 with            *)
(* PRK = KeyedHash(key = salt, message = secret), and the PRK length it     *)
(* reports is exactly HashLen of the digest.                                *)

RunsExtract(s) == s.op \in {"HKDF", "HKDF_extract"}

\* HKDF_extract has left its keyed-hash call behind
ExtractHashed(s) ==
  RunsExtract(s) /\ s.pc \notin {"idle", "hkdf_lock", "ext_lock", "ext_hmac"}

C4_ExtractPRK ==
  \A t \in Threads :
    LET s == th[t] IN
    ExtractHashed(s) =>
      /\ (s.pc = "ext_out" /\ ~s.hfail) => s.ex_ret = 1
      /\ (s.op = "HKDF_extract" /\ s.pc = "done") =>
           /\ s.result = s.ex_ret
           /\ ~s.hfail => s.result = 1
      /\ s.ex_ret = 1 =>
           /\ s.prk_len = s.digest_len
           /\ Take(s.prk, s.prk_len) = KeyedHash(s.salt, s.secret, s.digest_len)

\* a direct HKDF_extract call with different salt and secret has returned 1
C4_Witness ==
  LET s == th["t1"] IN
  /\ s.op = "HKDF_extract" /\ s.pc = "done" /\ s.result = 1
  /\ s.salt = <<5>> /\ s.secret = <<11>> /\ s.digest_len = 2 /\ s.prk_len = 2

-----------------------------------------------------------------------------
(* C5: whatever the inputs and whichever keyed-hash calls fail, HKDF        *)
(* returns the value and leaves the bytes in out_key that a caller gets who *)
(* runs HKDF_extract and then, only if it returned 1, HKDF_expand with the  *)
(* PRK and PRK length HKDF_extract produced.                                *)

\* a direct HKDF_expand call returns 1 unless the length is refused or a
\* keyed-hash call fails
C5_ExpandReturns(s) ==
  IF Ceil(s.out_len, s.digest_len) > 255 \/ s.hfail THEN 0 ELSE 1

\* what HKDF_expand leaves in a fresh caller buffer when its loop got as far
\* as nbytes bytes
C5_ExpandLeaves(cap, prk, info, hlen, nbytes) ==
  Write(Fill(cap, 204), 0,
        Take(RFC_Stream(prk, info, hlen, Ceil(nbytes, hlen)), nbytes))

C5_DirectCalls(s) ==
  /\ s.op = "HKDF_extract" =>
       /\ s.result = (IF s.hfail THEN 0 ELSE 1)
       /\ s.result = 1 =>
            /\ Take(s.prk, s.prk_len) = KeyedHash(s.salt, s.secret, s.digest_len)
            /\ s.prk_len = s.digest_len
  /\ s.op = "HKDF_expand" =>
       /\ s.result = C5_ExpandReturns(s)
       /\ s.out_key = C5_ExpandLeaves(Len(s.out_key), Take(s.prk, s.prk_len),
                                      s.info, s.digest_len, s.done)

C5_Composite(s) ==
  s.op = "HKDF" =>
    IF s.ex_ret = 0
      THEN /\ s.result = 0
           /\ s.hfail
           /\ s.out_key = Fill(Len(s.out_key), 204)
           /\ s.wr = {}
      ELSE /\ s.result = C5_ExpandReturns(s)
           /\ s.out_key = C5_ExpandLeaves(Len(s.out_key),
                                          KeyedHash(s.salt, s.secret, s.digest_len),
                                          s.info, s.digest_len, s.done)

C5_HKDFIsExtractThenExpand ==
  \A t \in Threads :
    LET s == th[t] IN
    s.pc = "done" => C5_DirectCalls(s) /\ C5_Composite(s)

\* an HKDF call has returned 1 with three bytes of a two-byte digest
C5_Witness ==
  LET s == th["t1"] IN
  /\ s.op = "HKDF" /\ s.pc = "done" /\ s.result = 1
  /\ s.digest_len = 2 /\ s.out_len = 3 /\ s.salt = <<5>> /\ s.secret = <<11>>

-----------------------------------------------------------------------------
(* C6: in HKDF_extract, HKDF_expand and HKDF, on every exit path, every     *)
(* LockState call is matched by exactly one later UnlockState call of the   *)
(* same call frame, UnlockState is never called without an unmatched        *)
(* LockState before it, and the lock depth on return is the lock depth on   *)
(* entry, after any sequence of calls.                                      *)

\* the frames whose lock is still held after the events ev, innermost last;
\* <<"unmatched">> once an unlock finds no lock of its own frame on top
RECURSIVE C6_Held(_, _)
C6_Held(stack, ev) ==
  IF ev = <<>> THEN stack
  ELSE LET e == Head(ev) IN
       CASE e.what = "lock" -> C6_Held(Append(stack, e.fn), Tail(ev))
         [] e.what = "unlock" ->
              IF stack # <<>> /\ stack[Len(stack)] = e.fn
                THEN C6_Held(SubSeq(stack, 1, Len(stack) - 1), Tail(ev))
                ELSE <<"unmatched">>
         [] OTHER -> C6_Held(stack, Tail(ev))

\* the frames that are between their lock and their unlock at each position
C6_Frames(s) ==
  (IF s.op = "HKDF" /\ s.pc \notin {"hkdf_lock", "hkdf_verify", "done"}
     THEN <<"HKDF">> ELSE <<>>)
  \o (IF s.pc \in {"ext_hmac", "ext_out"} THEN <<"HKDF_extract">> ELSE <<>>)
  \o (IF s.pc \in ({"exp_init", "exp_out"} \cup ExpandLoopPcs)
        THEN <<"HKDF_expand">> ELSE <<>>)

C6_LockPaired ==
  \A t \in Threads :
    LET s == th[t] IN
    s.pc # "idle" =>
      /\ C6_Held(<<>>, s.ev) = C6_Frames(s)
      /\ lock = s.depth0 + Len(C6_Frames(s))
      /\ s.pc = "done" => lock = s.depth0

\* an HKDF call, entered with the lock held once, has returned 0 after a
\* keyed-hash failure inside HKDF_expand: three locks, three unlocks
C6_Witness ==
  LET s == th["t1"] IN
  /\ s.op = "HKDF" /\ s.pc = "done" /\ s.result = 0 /\ s.ex_ret = 1 /\ s.hfail
  /\ s.depth0 = 1 /\ lock = 1
  /\ Len(SelectSeq(s.ev, LAMBDA e : e.what = "lock")) = 3
  /\ Len(SelectSeq(s.ev, LAMBDA e : e.what = "unlock")) = 3

-----------------------------------------------------------------------------
(* C7: on every exit path the sensitive internal buffers are zeroed before  *)
(* the call returns: `prk` of HKDF and `previous` of HKDF_expand hold only  *)
(* zero bytes at the moment of return. Stated for the returns that follow   *)
(* the filling of the buffer.                                               *)

C7_BuffersZeroedAtReturn ==
  \A t \in Threads :
    LET s == th[t] IN
    /\ (s.op = "HKDF" /\ s.pc = "done" /\ s.ex_ret = 1) =>
         s.prk = Zeros(Len(s.prk))
    /\ (RunsExpand(s) /\ s.pc \in AfterExpandPcs /\ s.done > 0) =>
         s.previous = Zeros(Len(s.previous))

-----------------------------------------------------------------------------
(* C8: a drawn 64-bit value that is all zero bits or all one bits is never  *)
(* accepted as entropy, even when the instruction reports success:          *)
(* CRYPTO_rdrand returns 0 for it (and stores nothing), and                 *)
(* CRYPTO_rdrand_multiple8_buf neither stores such a word in the buffer nor *)
(* returns 1 after drawing one, whatever the hardware answers.              *)

StuckPattern(v) == v = Fill(8, 0) \/ v = Fill(8, 255)

\* some draw of the call so far gave a stuck pattern
DrewStuck == \E k \in 1 .. Len(rd.hw) : StuckPattern(rd.hw[k].val)

C8_StuckNeverAccepted ==
  /\ (rd.fn = "CRYPTO_rdrand" /\ DrewStuck) =>
       /\ rd.out = Fill(8, 204) /\ rd.wr = <<>>
       /\ rd.pc = "done" => rd.result = 0
  /\ rd.fn = "CRYPTO_rdrand_multiple8_buf" =>
       /\ \A k \in 1 .. Len(rd.wr) :
            ~StuckPattern(SubSeq(rd.buf, rd.wr[k] + 1, rd.wr[k] + 8))
       /\ (DrewStuck /\ rd.pc = "done") => rd.result = 0

\* the bulk filler has stored one chunk, then drew all ones with the carry
\* flag set, and has returned 0
C8_Witness ==
  /\ rd.fn = "CRYPTO_rdrand_multiple8_buf" /\ rd.pc = "done" /\ rd.result = 0
  /\ rd.wr = <<0>> /\ Len(rd.hw) = 2
  /\ rd.hw[2] = [cf |-> 1, val |-> Fill(8, 255), at |-> 8]

-----------------------------------------------------------------------------
(* C9: in CRYPTO_rdrand, whenever the instruction reports failure (carry    *)
(* flag clear) the call returns 0, whatever 64-bit value the instruction    *)
(* leaves in the register, and the instruction is executed exactly once per *)
(* call.                                                                    *)

C9_FailedDrawFails ==
  (rd.fn = "CRYPTO_rdrand" /\ rd.pc = "done") =>
    /\ Len(rd.hw) = 1
    /\ rd.hw[1].cf = 0 => rd.result = 0

-----------------------------------------------------------------------------
(* C10, as claimed: when the instruction reports failure for a chunk the    *)
(* bulk filler does not fail; it draws again for the same chunk until the   *)
(* instruction reports success. So the filler returns 0 only after a draw   *)
(* the instruction reported successful.                                     *)

-----------------------------------------------------------------------------
(* C11: once a draw the instruction reported successful gives all zero or   *)
(* all one bits, CRYPTO_rdrand_multiple8_buf aborts the whole operation: it *)
(* returns 0, and after that draw it executes the instruction no more and   *)
(* stores nothing more in the buffer.                                       *)

C11_StuckAborts ==
  rd.fn = "CRYPTO_rdrand_multiple8_buf" =>
    \A k \in 1 .. Len(rd.hw) :
      (rd.hw[k].cf = 1 /\ StuckPattern(rd.hw[k].val)) =>
        /\ k = Len(rd.hw)
        /\ Len(rd.wr) = k - 1
        /\ rd.buf = Write(Fill(Len(rd.buf), 204), 0,
                          Flatten([j \in 1 .. k - 1 |-> rd.hw[j].val]))
        /\ rd.pc \in {"rm_check", "rm_err", "done"}
        /\ rd.pc = "done" => rd.result = 0

\* the second chunk's draw succeeded with all zero bits; the filler has
\* returned 0 with the first chunk stored and the second untouched
C11_Witness ==
  /\ rd.fn = "CRYPTO_rdrand_multiple8_buf" /\ rd.pc = "done" /\ rd.result = 0
  /\ rd.len = 16 /\ Len(rd.hw) = 2
  /\ rd.hw[2] = [cf |-> 1, val |-> Fill(8, 0), at |-> 8]
  /\ rd.wr = <<0>> /\ rd.buf[9] = 204

-----------------------------------------------------------------------------
(* C12: for a length that is a positive multiple of 8,                      *)
(* CRYPTO_rdrand_multiple8_buf returns 1 only once every chunk is filled:   *)
(* on success all len/8 chunks were stored, chunk k holds the value of the  *)
(* k-th accepted draw in draw order, each chunk is stored exactly once, and *)
(* every store is at an offset in {0, 8, ..., len-8}; when every draw       *)
(* succeeds with a value that is not stuck, the call returns 1.             *)

\* the draws the filler accepted, in draw order
AcceptedDraws ==
  SelectSeq(rd.hw, LAMBDA d : d.cf = 1 /\ ~StuckPattern(d.val))

C12_BulkFill ==
  (rd.fn = "CRYPTO_rdrand_multiple8_buf" /\ rd.len > 0) =>
    /\ rd.wr = [k \in 1 .. Len(rd.wr) |-> 8 * (k - 1)]
    /\ \A k \in 1 .. Len(rd.wr) :
         /\ rd.wr[k] <= rd.len - 8
         /\ SubSeq(rd.buf, rd.wr[k] + 1, rd.wr[k] + 8) = AcceptedDraws[k].val
    /\ \A j \in 8 * Len(rd.wr) + 1 .. Len(rd.buf) : rd.buf[j] = 204
    /\ (rd.pc = "done" /\ rd.result = 1) =>
         /\ 8 * Len(rd.wr) = rd.len
         /\ Len(AcceptedDraws) = Len(rd.wr)
    /\ (rd.pc = "done" /\ Len(AcceptedDraws) = Len(rd.hw)) => rd.result = 1

\* two chunks, two different accepted values, in draw order
C12_Witness ==
  /\ rd.fn = "CRYPTO_rdrand_multiple8_buf" /\ rd.pc = "done" /\ rd.result = 1
  /\ rd.len = 16 /\ rd.wr = <<0, 8>>
  /\ SubSeq(rd.buf, 1, 8) = <<1, 0, 0, 0, 0, 0, 0, 0>>
  /\ SubSeq(rd.buf, 9, 16) = <<18, 52, 86, 120, 154, 188, 222, 240>>

-----------------------------------------------------------------------------
(* C13: HKDF_expand returns 0 whenever a keyed-hash initialisation, update  *)
(* or finalisation of any block fails; after the first failed step it makes *)
(* no further keyed-hash call and writes nothing more to out_key; and it    *)
(* returns 1 only if every keyed-hash step of all N blocks succeeded.       *)

\* a keyed-hash step of HKDF_expand has failed
ExpandHashFailed(s) == s.hfail /\ (s.op = "HKDF" => s.ex_ret = 1)

\* the keyed-hash calls made before HKDF_expand is entered
CallsBeforeExpand(s) == IF s.op = "HKDF" THEN 1 ELSE 0

\* the keyed-hash steps of a whole HKDF_expand run of n blocks: the keying,
\* three steps for the first block and five for each later one
StepsOfBlocks(n) == IF n = 0 THEN 1 ELSE 5 * n - 1

C13_AtEachState(s) ==
  /\ ExpandHashFailed(s) =>
       /\ s.xp_ret = 0
       /\ s.pc \in {"exp_out", "exp_verify", "exp_cleanup"} \cup AfterExpandPcs
       /\ s.pc = "done" => s.result = 0
  /\ s.xp_ret = 1 =>
       /\ ~ExpandHashFailed(s)
       /\ s.i = s.n /\ s.n = Ceil(s.out_len, s.digest_len)
       /\ s.hcalls = CallsBeforeExpand(s) + StepsOfBlocks(s.n)
  /\ (s.pc = "done" /\ s.result = 1) => s.xp_ret = 1

C13_AtEachStep(s, s2) ==
  (ExpandHashFailed(s) /\ s2.pc # "idle") =>
    /\ s2.hcalls = s.hcalls
    /\ s2.out_key = s.out_key
    /\ s2.wr = s.wr
    /\ s2.previous = s.previous

C13_ExpandStopsAtFailure ==
  /\ [](\A t \in Threads : RunsExpand(th[t]) => C13_AtEachState(th[t]))
  /\ [][\A t \in Threads : RunsExpand(th[t]) => C13_AtEachStep(th[t], th'[t])]_vars

\* a direct call for two blocks has returned 0: the update with T(1) of the
\* second block failed, as the sixth keyed-hash call, after the first block
\* was written
C13_Witness ==
  LET s == th["t1"] IN
  /\ s.op = "HKDF_expand" /\ s.pc = "done" /\ s.result = 0 /\ s.hfail
  /\ s.digest_len = 2 /\ s.out_len = 4 /\ s.i = 1 /\ s.hcalls = 6
  /\ s.wr = {0, 1} /\ s.out_key[3] = 204

-----------------------------------------------------------------------------
(* C14: HKDF_extract returns 0 exactly when its keyed-hash call fails, and  *)
(* then it leaves *out_len as it was at entry and still releases the        *)
(* compliance lock it took.                                                 *)

\* the keyed-hash call of HKDF_extract, the first of the call, has failed
ExtractHashFailed(s) == s.hfail /\ s.hcalls = 1

C14_ExtractFailure ==
  \A t \in Threads :
    LET s == th[t] IN
    ExtractHashed(s) =>
      /\ s.ex_ret = 0 <=> ExtractHashFailed(s)
      /\ (s.op = "HKDF_extract" /\ s.pc = "done") =>
           (s.result = 0 <=> ExtractHashFailed(s))
      /\ ExtractHashFailed(s) =>
           /\ s.prk_len = s.prk_len0
           /\ Head(s.errs) = "ERR_R_HMAC_LIB"
           /\ s.pc # "ext_out" =>
                /\ \E k \in 1 .. Len(s.ev) :
                     /\ s.ev[k].fn = "HKDF_extract" /\ s.ev[k].what = "unlock"
                     /\ s.ev[k - 1].fn = "HKDF_extract" /\ s.ev[k - 1].what = "lock"
                     /\ s.ev[k].depth = s.ev[k - 1].depth - 1
                /\ (s.op = "HKDF_extract" /\ s.pc = "done") => lock = s.depth0

\* a direct call whose keyed hash failed has returned 0: the length the
\* caller passed still holds what it held, and the lock is released
C14_Witness ==
  LET s == th["t1"] IN
  /\ s.op = "HKDF_extract" /\ s.pc = "done" /\ s.result = 0 /\ s.hfail
  /\ s.prk_len0 = 170 /\ s.prk_len = 170 /\ s.digest_len = 2
  /\ lock = 0 /\ Len(s.ev) = 2

-----------------------------------------------------------------------------
(* C15, as claimed: when HKDF fails, in either phase and at any step,       *)
(* out_key is unchanged from its contents at entry.                         *)

C15_FailedHKDFLeavesOutKey ==
  \A t \in Threads :
    LET s == th[t] IN
    (s.op = "HKDF" /\ s.pc = "done" /\ s.result = 0) =>
      s.out_key = Fill(Len(s.out_key), 204)

(* C15, amended: when HKDF fails in HKDF_extract or at the length check of  *)
(* HKDF_expand, out_key is unchanged from its contents at entry; when a     *)
(* keyed-hash step of HKDF_expand fails after i blocks were copied, these i *)
(* whole blocks stay in out_key, bytes 0 .. i*HashLen-1, fewer than L       *)
(* unless L = 0, and every byte after them is unchanged.                    *)

C15_FailedHKDFLeavesWholeBlocks ==
  \A t \in Threads :
    LET s == th[t] IN
    (s.op = "HKDF" /\ s.pc = "done" /\ s.result = 0) =>
      /\ s.wr = 0 .. (s.done - 1)
      /\ \A j \in (s.done + 1) .. Len(s.out_key) : s.out_key[j] = 204
      /\ IF ExtractHashFailed(s) \/ Ceil(s.out_len, s.digest_len) > 255
           THEN /\ s.wr = {}
                /\ s.out_key = Fill(Len(s.out_key), 204)
           ELSE /\ ExpandHashFailed(s)
                /\ s.done = s.i * s.digest_len
                /\ s.done < s.out_len \/ s.out_len = 0
                /\ Take(s.out_key, s.done)
                     = RFC_Stream(KeyedHash(s.salt, s.secret, s.digest_len),
                                  s.info, s.digest_len, s.i)

\* HKDF has returned 0 from a failure in the second block of HKDF_expand: the
\* first block is in out_key
C15_Witness ==
  LET s == th["t1"] IN
  /\ s.op = "HKDF" /\ s.pc = "done" /\ s.result = 0
  /\ s.digest_len = 2 /\ s.out_len = 3 /\ s.i = 1 /\ s.wr = {0, 1}
  /\ Take(s.out_key, 2) # <<204, 204>>

-----------------------------------------------------------------------------
(* C16: HKDF runs HKDF_extract strictly before HKDF_expand and aborts at    *)
(* once: when HKDF_extract fails, no step of HKDF_expand is executed (no    *)
(* length check, no keyed-hash call, no write to out_key) and HKDF returns  *)
(* 0; HKDF_expand is only ever started with the PRK and the PRK length that *)
(* a successful HKDF_extract of the same call produced.                     *)

\* every position inside HKDF_expand, and the return from it into HKDF
InsideExpandPcs ==
  {"exp_check", "exp_lock", "exp_init", "exp_out", "exp_verify", "exp_cleanup",
   "hkdf_exp_ret"} \cup ExpandLoopPcs

C16_ExtractThenExpand ==
  \A t \in Threads :
    LET s == th[t] IN
    s.op = "HKDF" =>
      /\ s.pc \in InsideExpandPcs =>
           /\ s.ex_ret = 1 /\ ~ExtractHashFailed(s)
           /\ s.prk_len = s.digest_len
           /\ ExpandKey(s) = KeyedHash(s.salt, s.secret, s.digest_len)
      /\ \A k \in 1 .. Len(s.ev) :
           s.ev[k].fn = "HKDF_expand" =>
             /\ k > 3
             /\ s.ev[3].fn = "HKDF_extract" /\ s.ev[3].what = "unlock"
      /\ (ExtractHashed(s) /\ s.ex_ret = 0) =>
           /\ s.pc \in {"ext_out", "hkdf_ext_ret", "hkdf_out", "hkdf_verify", "done"}
           /\ s.hcalls = 1
           /\ s.n = 0 /\ s.errs = <<"ERR_R_HMAC_LIB">>
           /\ s.wr = {} /\ s.out_key = Fill(Len(s.out_key), 204)
           /\ \A k \in 1 .. Len(s.ev) : s.ev[k].fn # "HKDF_expand"
           /\ s.pc = "done" => s.result = 0

\* HKDF, asked for three bytes, has returned 0 after its HKDF_extract failed:
\* one keyed-hash call, and only the events of HKDF and HKDF_extract
C16_Witness ==
  LET s == th["t1"] IN
  /\ s.op = "HKDF" /\ s.pc = "done" /\ s.result = 0 /\ s.ex_ret = 0
  /\ s.out_len = 3 /\ s.hcalls = 1 /\ Len(s.ev) = 5

-----------------------------------------------------------------------------
(* C17: an HKDF call entered with the compliance lock released keeps the    *)
(* lock depth at 1 or more from its own LockState until its own UnlockState *)
(* (HKDF_extract and HKDF_expand only nest inside it), so the query made by *)
(* the inner HKDF_expand is made with the state locked; and exactly one     *)
(* query per HKDF call, that of HKDF itself, is made with the lock          *)
(* released, after HKDF's unlock, whether HKDF returns 1 or 0.              *)

\* the queries among the events ev that were made at lock depth 0
UnlockedQueries(ev) == SelectSeq(ev, LAMBDA e : e.what = "verify" /\ e.depth = 0)

C17_OneQueryPerHKDF ==
  \A t \in Threads :
    LET s == th[t]
        last == Len(s.ev)
    IN
    (s.op = "HKDF" /\ s.depth0 = 0) =>
      /\ s.pc \notin {"hkdf_lock", "hkdf_verify", "done"} =>
           /\ lock >= 1
           /\ s.ev[1] = [fn |-> "HKDF", what |-> "lock", depth |-> 1, answer |-> "none"]
           /\ \A k \in 1 .. last : s.ev[k].depth >= 1
           /\ UnlockedQueries(s.ev) = <<>>
      /\ \A k \in 1 .. last :
           (s.ev[k].fn = "HKDF_expand" /\ s.ev[k].what = "verify") => s.ev[k].depth = 1
      /\ s.pc = "hkdf_verify" =>
           /\ lock = 0
           /\ s.ev[last].fn = "HKDF" /\ s.ev[last].what = "unlock"
           /\ \A k \in 1 .. last - 1 : s.ev[k].depth >= 1
           /\ UnlockedQueries(s.ev) = <<>>
      /\ s.pc = "done" =>
           /\ Len(UnlockedQueries(s.ev)) = 1
           /\ s.ev[last].fn = "HKDF" /\ s.ev[last].what = "verify"
           /\ s.ev[last].depth = 0
           /\ s.ev[last - 1].fn = "HKDF" /\ s.ev[last - 1].what = "unlock"
           /\ Len(SelectSeq(s.ev, LAMBDA e : e.fn = "HKDF" /\ e.what = "verify")) = 1

\* HKDF, entered with the lock released, has returned 0 after a keyed-hash
\* failure in HKDF_expand: the inner query was made at depth 1, HKDF's own at
\* depth 0
C17_Witness ==
  LET s == th["t1"] IN
  /\ s.op = "HKDF" /\ s.depth0 = 0 /\ s.pc = "done" /\ s.result = 0 /\ s.ex_ret = 1
  /\ \E k \in 1 .. Len(s.ev) :
       s.ev[k].fn = "HKDF_expand" /\ s.ev[k].what = "verify" /\ s.ev[k].depth = 1
  /\ s.ev[Len(s.ev)].what = "verify" /\ s.ev[Len(s.ev)].depth = 0

-----------------------------------------------------------------------------
(* C18, as claimed: every HKDF_expand call queries the compliance subsystem *)
(* exactly once, and only after all N blocks have been computed and after   *)
(* the lock taken by HKDF_expand has been released.                         *)

\* the compliance queries HKDF_expand has made
ExpandQueries(s) ==
  SelectSeq(s.ev, LAMBDA e : e.fn = "HKDF_expand" /\ e.what = "verify")

\* HKDF_expand was called and has returned to its caller
ExpandReturned(s) ==
  \/ s.op = "HKDF_expand" /\ s.pc = "done"
  \/ s.op = "HKDF" /\ s.pc \in AfterExpandPcs /\ s.ex_ret = 1

\* the last event is the unlock of HKDF_expand, which left the lock as it is
ExpandUnlockedLast(s) ==
  /\ s.ev # <<>>
  /\ s.ev[Len(s.ev)].fn = "HKDF_expand" /\ s.ev[Len(s.ev)].what = "unlock"
  /\ s.ev[Len(s.ev)].depth = lock

C18_EveryExpandQueriesAfterAllBlocks ==
  \A t \in Threads :
    LET s == th[t] IN
    RunsExpand(s) =>
      /\ ExpandReturned(s) => Len(ExpandQueries(s)) = 1
      /\ s.pc = "exp_verify" =>
           /\ s.i = s.n /\ s.done = s.out_len
           /\ ExpandUnlockedLast(s)

(* C18, amended: an HKDF_expand call that passes the length check queries   *)
(* the compliance subsystem exactly once, after its block loop has ended    *)
(* (with all N blocks computed, or at the first failed keyed-hash step) and *)
(* after the lock it took has been released; a call the length check        *)
(* refuses makes no query.                                                  *)

C18_ExpandQueriesOnceUnlessRefused ==
  \A t \in Threads :
    LET s == th[t] IN
    RunsExpand(s) =>
      /\ ExpandReturned(s) =>
           Len(ExpandQueries(s)) = (IF Ceil(s.out_len, s.digest_len) > 255 THEN 0 ELSE 1)
      /\ ~ExpandReturned(s) =>
           Len(ExpandQueries(s)) = (IF s.pc = "exp_cleanup" THEN 1 ELSE 0)
      /\ s.pc = "exp_verify" =>
           /\ \/ s.xp_ret = 1 /\ s.i = s.n /\ s.done = s.out_len
              \/ s.xp_ret = 0 /\ ExpandHashFailed(s)
           /\ ExpandUnlockedLast(s)
      /\ s.pc = "exp_cleanup" =>
           /\ s.ev[Len(s.ev)].fn = "HKDF_expand" /\ s.ev[Len(s.ev)].what = "verify"
           /\ s.ev[Len(s.ev) - 1].fn = "HKDF_expand"
           /\ s.ev[Len(s.ev) - 1].what = "unlock"
           /\ s.ev[Len(s.ev)].depth = s.ev[Len(s.ev) - 1].depth
           /\ s.ev[Len(s.ev)].depth = s.depth0 + CallsBeforeExpand(s)

\* a direct call for two blocks has returned 0 after a keyed-hash step of
\* its second block failed, and it has made its one query, after its unlock
C18_Witness ==
  LET s == th["t1"] IN
  /\ s.op = "HKDF_expand" /\ s.pc = "done" /\ s.result = 0 /\ s.hfail
  /\ s.n = 2 /\ s.i = 1 /\ s.done < s.out_len
  /\ Len(ExpandQueries(s)) = 1
  /\ s.ev[Len(s.ev)].what = "verify" /\ s.ev[Len(s.ev) - 1].what = "unlock"

-----------------------------------------------------------------------------
(* C19: the code never branches on what a compliance query concluded: two   *)
(* runs of HKDF_extract, HKDF_expand or HKDF with the same arguments and    *)
(* the same behaviour of the keyed hash, whatever the queries answer in     *)
(* each, return the same value, leave the same output bytes, make the same  *)
(* keyed-hash calls and the same lock, unlock and query calls in the same   *)
(* order.                                                                   *)

\* the behaviour of the keyed hash in a finished run: the number of the call
\* that failed, 0 when none did (a run makes no keyed-hash call after a
\* failed one, C13 and C14)
FailedCall(s) == IF s.hfail THEN s.hcalls ELSE 0

\* the calls into the compliance subsystem without what the queries answered
CallsOnly(ev) == [k \in 1 .. Len(ev) |-> [ev[k] EXCEPT !.answer = "none"]]

\* the answers of the queries
AnswersOnly(ev) ==
  LET q == SelectSeq(ev, LAMBDA e : e.what = "verify") IN
  [k \in 1 .. Len(q) |-> q[k].answer]

\* both runs are over, with the same arguments and keyed-hash behaviour
SameRuns(a, b) ==
  /\ a.pc = "done" /\ b.pc = "done"
  /\ a.out_len = b.out_len
  /\ FailedCall(a) = FailedCall(b)

C19_AnswersChangeNothing ==
  LET a == th["t1"]
      b == th["t2"]
  IN
  SameRuns(a, b) =>
    /\ a.result = b.result
    /\ a.out_key = b.out_key
    /\ a.wr = b.wr
    /\ a.result = 1 => (ExpandKey(a) = ExpandKey(b) /\ a.prk_len = b.prk_len)
    /\ a.hcalls = b.hcalls
    /\ a.errs = b.errs
    /\ CallsOnly(a.ev) = CallsOnly(b.ev)

\* two HKDF runs that returned 1, each with two queries, all four answers
\* different from run to run
C19_Witness ==
  LET a == th["t1"]
      b == th["t2"]
  IN
  /\ SameRuns(a, b) /\ a.op = "HKDF" /\ a.result = 1 /\ a.out_len = 3
  /\ AnswersOnly(a.ev) = <<"approved", "not_approved">>
  /\ AnswersOnly(b.ev) = <<"not_approved", "approved">>

-----------------------------------------------------------------------------
(* C20: prefix-consistency of HKDF_expand: for the same digest, PRK and     *)
(* info and accepted lengths L1 < L2, the first L1 bytes written by the run *)
(* with L2 are the L1 bytes written by the run with L1.                     *)

C20_PrefixConsistent ==
  LET a == th["t1"]
      b == th["t2"]
  IN
  (/\ a.op = "HKDF_expand" /\ b.op = "HKDF_expand"
   /\ a.pc = "done" /\ b.pc = "done"
   /\ a.result = 1 /\ b.result = 1
   /\ a.out_len < b.out_len) =>
    /\ a.wr = 0 .. (a.out_len - 1)
    /\ b.wr = 0 .. (b.out_len - 1)
    /\ Take(b.out_key, a.out_len) = Take(a.out_key, a.out_len)

\* one block against two, with a non-empty info
C20_Witness ==
  LET a == th["t1"]
      b == th["t2"]
  IN
  /\ a.op = "HKDF_expand" /\ b.op = "HKDF_expand"
  /\ a.pc = "done" /\ b.pc = "done" /\ a.result = 1 /\ b.result = 1
  /\ a.digest_len = 2 /\ a.out_len = 2 /\ b.out_len = 4 /\ a.info # <<>>
  /\ b.digest_len = 2 /\ b.info = a.info /\ ExpandKey(b) = ExpandKey(a)
  /\ Take(b.out_key, 2) = Take(a.out_key, 2) /\ b.out_key[3] # 204

-----------------------------------------------------------------------------
(* C22: CRYPTO_rdrand_multiple8_buf called with length 0 returns 1 without  *)
(* executing the hardware instruction and without writing a byte of the     *)
(* buffer.                                                                  *)

C22_BulkLengthZero ==
  (rd.fn = "CRYPTO_rdrand_multiple8_buf" /\ rd.len = 0) =>
    /\ rd.hw = <<>> /\ rd.wr = <<>>
    /\ rd.buf = Fill(Len(rd.buf), 204)
    /\ rd.pc \in {"rm_entry", "rm_out", "done"}
    /\ rd.pc = "done" => rd.result = 1

C22_Witness ==
  /\ rd.fn = "CRYPTO_rdrand_multiple8_buf" /\ rd.len = 0
  /\ rd.pc = "done" /\ rd.result = 1 /\ rd.hw = <<>> /\ Len(rd.buf) = 8

-----------------------------------------------------------------------------
(* C28: for every length that is a multiple of 8 and whatever the hardware  *)
(* answers, also when the instruction reports failure every time,           *)
(* CRYPTO_rdrand_multiple8_buf returns, and by then it has executed the     *)
(* instruction at most len/8 times.                                         *)

C28_BulkReturns ==
  /\ [](rd.fn = "CRYPTO_rdrand_multiple8_buf" => 8 * Len(rd.hw) <= rd.len)
  /\ (rd.fn = "CRYPTO_rdrand_multiple8_buf" /\ rd.pc = "rm_entry")
       ~> (rd.fn = "CRYPTO_rdrand_multiple8_buf" /\ rd.pc = "done")

\* a call for two chunks has returned after two draws, the second of which
\* the instruction reported as failed
C28_Witness ==
  /\ rd.fn = "CRYPTO_rdrand_multiple8_buf" /\ rd.pc = "done" /\ rd.result = 0
  /\ rd.len = 16 /\ Len(rd.hw) = 2 /\ rd.hw[2].cf = 0

-----------------------------------------------------------------------------
(* C29: when CRYPTO_rdrand_multiple8_buf fails while drawing chunk k, the   *)
(* chunks 0 .. k-1 of the buffer hold the values drawn for them and every   *)
(* byte from offset 8k on is unchanged; the partial fill is neither rolled  *)
(* back nor wiped before 0 is returned.                                     *)

C29_PartialFillKept ==
  (/\ rd.fn = "CRYPTO_rdrand_multiple8_buf"
   /\ rd.pc = "rm_err" \/ (rd.pc = "done" /\ rd.result = 0)) =>
    LET k == Len(rd.hw) - 1 IN
    /\ k >= 0 /\ 8 * k < rd.len
    /\ rd.hw[k + 1].at = 8 * k
    /\ \A j \in 1 .. k :
         SubSeq(rd.buf, 8 * (j - 1) + 1, 8 * j) = rd.hw[j].val
    /\ \A j \in 8 * k + 1 .. Len(rd.buf) : rd.buf[j] = 204

\* the draw for the second chunk failed: the first chunk is still in the
\* buffer when 0 is returned
C29_Witness ==
  /\ rd.fn = "CRYPTO_rdrand_multiple8_buf" /\ rd.pc = "done" /\ rd.result = 0
  /\ rd.len = 16 /\ Len(rd.hw) = 2
  /\ SubSeq(rd.buf, 1, 8) = <<18, 52, 86, 120, 154, 188, 222, 240>>
  /\ rd.buf[9] = 204

-----------------------------------------------------------------------------
(* C30: CRYPTO_rdrand writes the caller's word only when it returns 1, and  *)
(* then exactly the value the instruction drew; whenever it returns 0 the   *)
(* word is unchanged.                                                       *)

C30_WordWrittenOnlyOnSuccess ==
  rd.fn = "CRYPTO_rdrand" =>
    /\ rd.pc # "done" => (rd.wr = <<>> /\ rd.out = Fill(8, 204))
    /\ (rd.pc = "done" /\ rd.result = 1) =>
         (rd.wr = <<0>> /\ Len(rd.hw) = 1 /\ rd.out = rd.hw[1].val)
    /\ (rd.pc = "done" /\ rd.result # 1) =>
         (rd.result = 0 /\ rd.wr = <<>> /\ rd.out = Fill(8, 204))

\* a stuck value was drawn: 0 is returned and the word is as it was
C30_Witness ==
  /\ rd.fn = "CRYPTO_rdrand" /\ rd.pc = "done" /\ rd.result = 0
  /\ rd.hw[1].val = Fill(8, 255) /\ rd.hw[1].cf = 1 /\ rd.out = Fill(8, 204)

-----------------------------------------------------------------------------
(* C21, as claimed: HKDF_expand called with L = 0 returns 1 and writes no   *)
(* byte of the caller's buffer, for every digest, PRK and info.             *)

C21_ZeroLengthSucceeds ==
  \A t \in Threads :
    LET s == th[t] IN
    (s.op = "HKDF_expand" /\ s.out_len = 0 /\ s.pc = "done") =>
      /\ s.result = 1
      /\ s.wr = {} /\ s.out_key = Fill(Len(s.out_key), 204)

(* C21, amended: HKDF_expand called with L = 0 computes no block and writes *)
(* no byte of the caller's buffer, for every digest, PRK and info; it still *)
(* keys the hash with the PRK, its one keyed-hash call, and returns 1 when  *)
(* that call succeeds and 0 when it fails.                                  *)

C21_ZeroLengthKeysOnly ==
  \A t \in Threads :
    LET s == th[t] IN
    (s.op = "HKDF_expand" /\ s.out_len = 0 /\ s.pc # "exp_check") =>
      /\ s.n = 0 /\ s.done = 0
      /\ s.pc \notin ExpandLoopPcs
      /\ s.wr = {} /\ s.out_key = Fill(Len(s.out_key), 204)
      /\ s.errs = (IF s.pc = "done" /\ s.hfail THEN <<"ERR_R_HMAC_LIB">> ELSE <<>>)
      /\ s.pc = "done" =>
           /\ s.hcalls = 1
           /\ s.result = (IF s.hfail THEN 0 ELSE 1)

\* no byte asked for, a non-empty info, the keying succeeded: 1 is returned
\* with the buffer as it was
C21_Witness ==
  LET s == th["t1"] IN
  /\ s.op = "HKDF_expand" /\ s.out_len = 0 /\ s.pc = "done" /\ s.result = 1
  /\ s.info # <<>> /\ s.digest_len = 2 /\ s.hcalls = 1
  /\ s.out_key = Fill(Len(s.out_key), 204)

-----------------------------------------------------------------------------
(* C27: when HKDF_expand refuses the length it returns before any other     *)
(* effect: no lock or unlock call, no compliance query, no keyed-hash call, *)
(* no write to out_key, and HKDF_R_OUTPUT_TOO_LARGE is the only error it    *)
(* reports (ERR_R_HMAC_LIB is not reported as well).                        *)

\* what the call had done when HKDF_expand was entered: nothing for a direct
\* call, the events, the keyed-hash call and the errors of HKDF_extract inside
\* HKDF
EventsBeforeExpand(s) ==
  IF s.op = "HKDF" THEN SubSeq(s.ev, 1, 3) ELSE <<>>

C27_RefusedLengthDoesNothing ==
  \A t \in Threads :
    LET s == th[t] IN
    (/\ RunsExpand(s) /\ s.pc \in AfterExpandPcs
     /\ s.op = "HKDF" => s.ex_ret = 1
     /\ Ceil(s.out_len, s.digest_len) > 255) =>
      /\ s.errs = <<"HKDF_R_OUTPUT_TOO_LARGE">>
      /\ s.hcalls = CallsBeforeExpand(s)
      /\ s.hmac = NoCtx
      /\ s.wr = {} /\ s.out_key = Fill(Len(s.out_key), 204)
      /\ s.previous = Fill(Len(s.previous), s.previous[1])
      /\ \A k \in 1 .. Len(s.ev) : s.ev[k].fn # "HKDF_expand"
      /\ s.pc \in {"hkdf_exp_ret", "hkdf_out"} => s.ev = EventsBeforeExpand(s)
      /\ s.op = "HKDF_expand" => (s.ev = <<>> /\ lock = s.depth0 /\ s.result = 0)

\* a direct call for one byte more than 255 blocks has returned 0
C27_Witness ==
  LET s == th["t1"] IN
  /\ s.op = "HKDF_expand" /\ s.pc = "done" /\ s.result = 0
  /\ s.digest_len = 2 /\ s.out_len = 511 /\ s.n = 256
  /\ s.errs = <<"HKDF_R_OUTPUT_TOO_LARGE">> /\ s.ev = <<>>

-----------------------------------------------------------------------------
(* C25: in every iteration of the block loop of HKDF_expand the counter     *)
(* byte fed to the keyed hash is the 1-based index of the block and lies in *)
(* 1 .. 255: it is never 0, it never wraps around the 8-bit range, and no   *)
(* two blocks of one call are fed the same counter value.                   *)

C25_CounterIsBlockIndex ==
  \A t \in Threads :
    LET s == th[t] IN
    RunsExpand(s) =>
      /\ s.ctrs = [k \in 1 .. Len(s.ctrs) |-> k]
      /\ Len(s.ctrs) <= 255
      /\ Cardinality({s.ctrs[k] : k \in 1 .. Len(s.ctrs)}) = Len(s.ctrs)
      /\ s.pc \in ExpandLoopPcs =>
           /\ s.ctr = s.i + 1
           /\ s.ctr \in 1 .. 255
           /\ Len(s.ctrs) = (IF s.pc \in {"exp_final", "exp_copy"} THEN s.i + 1 ELSE s.i)
      /\ s.pc \in {"exp_final", "exp_copy"} =>
           s.hmac.fed[Len(s.hmac.fed)] = <<s.i + 1>>

\* the last block of the longest output: block 255 has been fed the byte 255
C25_Witness ==
  LET s == th["t1"] IN
  /\ s.pc = "exp_final" /\ s.digest_len = 1 /\ s.out_len = 255
  /\ s.i = 254 /\ s.ctr = 255 /\ Len(s.ctrs) = 255 /\ s.ctrs[255] = 255

-----------------------------------------------------------------------------
(* The length check of HKDF_expand for every digest length up to            *)
(* EVP_MAX_MD_SIZE of the library, 64, and every requested length the size  *)
(* type holds.                                                              *)

AllDigestLens == 1 .. 64

InitWrap ==
  /\ \E len \in 0 .. SizeMod - 1, h \in AllDigestLens :
       th = [t \in Threads |->
               IF t = "t1"
                 THEN [Blank EXCEPT !.pc = "exp_check", !.op = "HKDF_expand",
                                    !.digest_len = h, !.out_len = len]
                 ELSE Blank]
  /\ lock = 0
  /\ outer = 0
  /\ rd = RdBlank
  /\ x5 = XBlank

SpecWrap == InitWrap /\ [][NextLen]_vars

(* C26: with size arithmetic unsigned modulo 2^w, for every out_len in      *)
(* 0 .. 2^w-1 and every digest_len in 1 .. 64, the length check of          *)
(* HKDF_expand passes only if the wrapped block count                       *)
(* n = (out_len + digest_len - 1) / digest_len is the mathematical          *)
(* ceil(out_len / digest_len) and is at most 255; no out_len is accepted    *)
(* because a wrapped sum made n look small.                                 *)

C26_NoWrappedAcceptance ==
  LET s == th["t1"] IN
  (s.op = "HKDF_expand" /\ s.pc = "exp_lock") =>
    /\ s.out_len + s.digest_len - 1 < SizeMod
    /\ s.n = Ceil(s.out_len, s.digest_len)
    /\ s.n * s.digest_len >= s.out_len
    /\ (s.n - 1) * s.digest_len < s.out_len \/ s.out_len = 0
    /\ s.n <= 255

\* the sum of the largest length and a digest length of 2 wraps to 1, which
\* would give n = 0: the length is refused
C26_Witness ==
  LET s == th["t1"] IN
  /\ s.op = "HKDF_expand" /\ s.pc = "done" /\ s.result = 0
  /\ s.out_len = SizeMod - 1 /\ s.digest_len = 2 /\ s.n = 0
  /\ s.errs = <<"HKDF_R_OUTPUT_TOO_LARGE">>


-----------------------------------------------------------------------------
(* X509Tool: which option sets the validation refuses                       *)

\* the checks of the call have been made
ToolChecked == x5.pc \in {"xt_open", "xt_run", "done"}

\* the call returned false without a call of fopen
ToolRejected == x5.pc = "done" /\ x5.result = 0 /\ x5.fopen = "not called"

\* the names of the options given
OptionSet(a) ==
  {o \in {"-in", "-out", "-signkey", "-checkend", "-days"} :
     CASE o = "-in" -> a.in # <<>>
       [] o = "-out" -> a.out # <<>>
       [] o = "-signkey" -> a.signkey # <<>>
       [] o = "-checkend" -> a.checkend # <<>>
       [] o = "-days" -> a.days # <<>>}
  \cup {o \in {"-noout", "-modulus", "-dates", "-req"} :
     CASE o = "-noout" -> a.noout
       [] o = "-modulus" -> a.modulus
       [] o = "-dates" -> a.dates
       [] o = "-req" -> a.req}

\* the option sets of the calls in x509_test.cc
TestOptionSets ==
  { {"-in", "-out"}, {"-in", "-modulus"}, {"-in", "-out", "-signkey"},
    {"-in", "-out", "-signkey", "-days"}, {"-in", "-dates"},
    {"-in", "-out", "-req", "-signkey"}, {"-in", "-checkend"} }

NonZero(arg) == arg # <<>> /\ arg[1] # 0

\* the conditions with every option counted as soon as it is given, but for
\* the one place where a non-zero -checkend is asked for
RejectedAsGiven(a) ==
  \/ a.in = <<>>
  \/ a.req /\ a.signkey = <<>>
  \/ a.noout /\ (a.out # <<>> \/ a.modulus \/ a.dates \/ a.checkend # <<>>)
  \/ /\ a.req \/ a.signkey # <<>> \/ a.days # <<>>
     /\ a.dates \/ NonZero(a.checkend)

\* the conditions with -checkend and -days counted only when their value is
\* not zero
RejectedByValue(a) ==
  \/ a.in = <<>>
  \/ a.req /\ a.signkey = <<>>
  \/ a.noout /\ (a.out # <<>> \/ a.modulus \/ a.dates \/ NonZero(a.checkend))
  \/ /\ a.req \/ a.signkey # <<>> \/ NonZero(a.days)
     /\ a.dates \/ NonZero(a.checkend)

-----------------------------------------------------------------------------
(* Two calls running at once                                                *)

\* C23: two calls of HKDF, HKDF_extract or HKDF_expand that run at once on
\* their own PRK, secret and output buffers do not disturb each other:
\* however their steps interleave, each returns the result and leaves the
\* output bytes that its own arguments and its own keyed-hash outcomes give
\* it when it runs alone; the lock depth they share is at every moment the
\* number of locks the two calls hold, and is back at its initial value once
\* both have returned.
C23_ConcurrentCallsIndependent ==
  /\ \A t \in Threads :
       LET s == th[t] IN
       s.pc = "done" => C5_DirectCalls(s) /\ C5_Composite(s)
  /\ lock = Len(C6_Frames(th["t1"])) + Len(C6_Frames(th["t2"]))
  /\ th["t1"].pc = "done" /\ th["t2"].pc = "done" => lock = 0

\* C23 happens: an HKDF call and an HKDF_expand call of three bytes have
\* both returned 1, and the second took its lock while the first held two
C23_Witness ==
  LET a == th["t1"]
      b == th["t2"]
  IN
  /\ a.pc = "done" /\ a.op = "HKDF" /\ a.result = 1 /\ a.out_len = 3
  /\ b.pc = "done" /\ b.op = "HKDF_expand" /\ b.result = 1 /\ b.out_len = 3
  /\ \E k \in 1 .. Len(b.ev) : b.ev[k].what = "lock" /\ b.ev[k].depth = 3
  /\ lock = 0

====
